---- MODULE Spec2Model ----
(***************************************************************************)
(* Model of the ai-mayhem monitoring pipeline: the provider router, the    *)
(* three-layer store, the cursor-staleness planner, the worker, the        *)
(* analyzer and the brief gate.  Time is counted in hours.                 *)
(***************************************************************************)
EXTENDS Integers, Sequences, FiniteSets, TLC

\* ------------------------------------------------------------------------
\* Program constants (src/nodes/config.py), in hours / dollars
\* ------------------------------------------------------------------------
BUDGET_DAILY == 5
CURSOR_STALE_WALLET == 2
CURSOR_STALE_LP == 6
CURSOR_STALE_EXPLORE == 24
BRIEF_COOLDOWN == 6
BRIEF_THRESHOLD_EVENTS == 5
ANALYZE_WINDOW == 24
SCRATCH_DAYS == 168
EVENTS_DAYS == 720
ARTIFACTS_DAYS == 2160

\* ------------------------------------------------------------------------
\* Bounds of the model
\* ------------------------------------------------------------------------
StartTime == 1000
MaxRuns == 2

None == "None"
\* absent timestamp (a missing row, a missing key)
NoTs == 0 - 1
NoDate == 0 - 1

Min(a, b) == IF a < b THEN a ELSE b

\* ------------------------------------------------------------------------
\* ProviderRouter (src/real_apis/provider_router.py)
\* ------------------------------------------------------------------------
ProviderNames == {"alchemy", "covalent", "bitquery", "mock"}
LiveProviders == <<"alchemy", "covalent", "bitquery">>
LiveSet == {"alchemy", "covalent", "bitquery"}
\* values of the WALLET_RECON_SOURCE override ("" = unset)
SourceValues == {"", "alchemy", "covalent", "bitquery", "mock", "other",
                 "COVALENT"}
\* str.lower() on the values of the override
lower(source) == IF source = "COVALENT" THEN "covalent" ELSE source

\* keys: the live providers whose API key is present
_detect_available_providers(keys) ==
    [p \in ProviderNames |-> IF p = "mock" THEN TRUE ELSE p \in keys]

_build_fallback_chain(avail) ==
    SelectSeq(LiveProviders, LAMBDA p : avail[p]) \o <<"mock">>

\* a selection that does not look at the override
get_selected_provider_chain_only(avail, source) ==
    _build_fallback_chain(avail)[1]

get_selected_provider(avail, source) ==
    IF lower(source) # "" /\ lower(source) \in DOMAIN avail
       /\ avail[lower(source)]
    THEN lower(source)
    ELSE _build_fallback_chain(avail)[1]

\* the "provider" tag carried by a provider's own response; the router
\* only fills the tag in when the response has none
ResponseTag(p) ==
    CASE p = "alchemy"  -> "alchemy"
      [] p = "covalent" -> "covalent"
      [] p = "bitquery" -> "bitquery"
      [] p = "mock"     -> "bitquery"

\* the guard of the fallback loop: is this provider of the chain attempted
AttemptsProvider(p, selected, avail) ==
    p = selected \/ selected \notin DOMAIN avail

RECURSIVE FetchLoop(_, _, _, _, _, _)
FetchLoop(chain, i, selected, avail, throwing, attempts) ==
    IF i > Len(chain)
    THEN [raised |-> TRUE, served |-> None, tag |-> None, attempts |-> attempts]
    ELSE LET p == chain[i] IN
         IF AttemptsProvider(p, selected, avail)
         THEN IF p \in throwing
              THEN IF p = "mock"
                   THEN [raised |-> TRUE, served |-> None, tag |-> None,
                         attempts |-> Append(attempts, p)]
                   ELSE FetchLoop(chain, i + 1, selected, avail, throwing,
                                  Append(attempts, p))
              ELSE [raised |-> FALSE, served |-> p, tag |-> ResponseTag(p),
                    attempts |-> Append(attempts, p)]
         ELSE FetchLoop(chain, i + 1, selected, avail, throwing, attempts)

fetch_wallet_activity(keys, source, throwing) ==
    LET avail == _detect_available_providers(keys)
    IN  FetchLoop(_build_fallback_chain(avail), 1,
                  get_selected_provider(avail, source), avail, throwing, <<>>)

\* ------------------------------------------------------------------------
\* Python dict with insertion order, as a sequence of [k, v] entries
\* ------------------------------------------------------------------------
DictHas(d, k) == \E i \in 1..Len(d) : d[i].k = k
DictGet(d, k, default) ==
    IF DictHas(d, k) THEN d[CHOOSE i \in 1..Len(d) : d[i].k = k].v ELSE default
DictPut(d, k, v) ==
    IF DictHas(d, k)
    THEN [i \in 1..Len(d) |-> IF d[i].k = k THEN [k |-> k, v |-> v] ELSE d[i]]
    ELSE Append(d, [k |-> k, v |-> v])

\* ------------------------------------------------------------------------
\* Tracked wallets and cursor names
\* ------------------------------------------------------------------------
Wallets == {"A", "B"}
WalletLists == {<<>>, <<"A">>, <<"B">>, <<"A", "B">>, <<"B", "A">>}
WalletKey(w) == "wallet:" \o w
WalletKeys == {WalletKey(w) : w \in Wallets}
IsWalletKey(k) == k \in WalletKeys
WalletOf(k) == CHOOSE w \in Wallets : WalletKey(w) = k
CursorNames == WalletKeys \cup {"lp", "explore_metrics"}
SeqToSet(s) == {s[i] : i \in 1..Len(s)}

\* ------------------------------------------------------------------------
\* State
\* ------------------------------------------------------------------------
VARIABLES
    envKeys,      \* live providers with an API key in the environment
    envSource,    \* WALLET_RECON_SOURCE
    envThrows,    \* live providers whose fetch raises
    tz,           \* the host's offset from UTC (hours)
    routerResult, \* result of the last ProviderRouter.fetch_wallet_activity
    client,       \* the provider client call in progress
    now,          \* wall clock (hours)
    procStart,    \* time the running process imported its fixtures
    wallets,      \* load_monitored_wallets(): the tracked wallet list
    dbCursors,    \* cursors table: name -> last_ts, NoTs when no row
    scratch,      \* Layer 1 rows (json_cache_scratch)
    events,       \* Layer 2 rows (normalized_events)
    artifacts,    \* Layer 3 rows (artifacts)
    st,           \* the run state passed between the nodes
    pc,           \* the node the run is at, "idle" between runs
    runs,         \* number of runs started
    hist          \* history of the current run, for the properties

routerVars == <<envKeys, envSource, envThrows, routerResult>>
envVars == <<envKeys, envSource, envThrows, tz, client>>
storeVars == <<scratch, events, artifacts>>
vars == <<envKeys, envSource, envThrows, tz, routerResult, client, now, procStart,
          wallets, dbCursors, scratch, events, artifacts, st, pc, runs, hist>>

NoResult == [raised |-> FALSE, served |-> None, tag |-> None, attempts |-> <<>>]

\* no client call in progress. attempt: the loop index; requests: the
\* responses of the HTTP requests made; waits: the sleeps made, each with
\* the number of requests made before it; last_error: the exception the
\* except clause kept; raised: what the call raised; router: what the
\* router's _call_provider receives from the provider's fetch function;
\* elapsed: the seconds the call has taken in sleeps and request timeouts
NoClient == [provider |-> None, attempt |-> 0, requests |-> <<>>,
             waits |-> <<>>, last_error |-> None, pc |-> "idle",
             raised |-> None, router |-> None, elapsed |-> 0]

\* total: the sum of last24h_counts; the signals as fractions <<num, den>>;
\* present: whether the signals dict has entries
NoSignals == [total |-> 0, volume |-> <<0, 1>>, activity |-> <<0, 1>>,
              concentration |-> <<0, 1>>, pool_activity |-> <<0, 1>>,
              present |-> FALSE]

InitState ==
    [cursors |-> <<>>, spent_today |-> 0, last_date |-> NoDate,
     status |-> "planning",
     selected_action |-> None, target_wallet |-> None,
     events |-> <<>>, source_ids |-> {}, signals |-> NoSignals,
     normalized |-> 0, last_brief_at |-> 0, reason |-> None,
     brief_emitted |-> FALSE, messages |-> <<"Human: Goal">>, error |-> None]

NoCall == [op |-> None, key |-> None, content |-> None]
\* seeded: cursor names the last planner tick seeded; node: the node that
\* ran last; fresh: the run started with an empty run state; input, first:
\* the state a cycle was started with and the counts of its first pass;
\* call, repeat, prev: the last store call, whether it repeats the call
\* before it, and the visible store contents it found; llm: what the LLM
\* call of the last brief did; failed: a stage of the run hit an exception
NoHist == [seeded |-> {}, node |-> None, fresh |-> FALSE,
           input |-> InitState, first |-> [n |-> 0, l2 |-> 0],
           call |-> NoCall, repeat |-> FALSE, prev |-> <<{}, {}, {}>>,
           llm |-> None, failed |-> FALSE]

PipelineFrame ==
    /\ now = StartTime
    /\ tz = 0
    /\ procStart = StartTime
    /\ wallets = <<>>
    /\ dbCursors = [n \in CursorNames |-> NoTs]
    /\ scratch = {}
    /\ events = {}
    /\ artifacts = {}
    /\ st = InitState
    /\ pc = "idle"
    /\ runs = 0
    /\ hist = NoHist

pipelineVars == <<tz, now, procStart, wallets, dbCursors, scratch, events,
                  artifacts, st, pc, runs, hist>>

\* ------------------------------------------------------------------------
\* Router specification: the environment is drawn, then one fetch is made
\* ------------------------------------------------------------------------
RouterInit ==
    /\ envKeys \in SUBSET LiveSet
    /\ envSource \in SourceValues
    /\ envThrows \in SUBSET LiveSet
    /\ routerResult = NoResult
    /\ client = NoClient
    /\ PipelineFrame

RouterFetch ==
    /\ routerResult = NoResult
    /\ routerResult' = fetch_wallet_activity(envKeys, envSource, envThrows)
    /\ UNCHANGED <<envVars, pipelineVars>>

RouterNext == RouterFetch

SpecRouter == RouterInit /\ [][RouterNext]_vars

\* ------------------------------------------------------------------------
\* Provider clients (src/real_apis/covalent.py, src/real_apis/bitquery.py):
\* CovalentClient._execute_request and BitqueryClient._execute_query are the
\* same retry loop; delays are in seconds
\* ------------------------------------------------------------------------
MAX_RETRIES == 3
BASE_DELAY == 1
MAX_DELAY == 60
\* the timeout the client gives its HTTP session (covalent.py line 34,
\* bitquery.py line 25)
REQUEST_TIMEOUT == [covalent |-> 30, bitquery |-> 60]

ClientProviders == {"covalent", "bitquery"}

\* the Retry-After header of a 429 response: absent, a number of seconds,
\* or text float() rejects (an HTTP date)
NoHeader == [kind |-> "absent", secs |-> 0]
RetryAfterHeaders ==
    {NoHeader, [kind |-> "seconds", secs |-> 5],
     [kind |-> "seconds", secs |-> 2 * MAX_DELAY], [kind |-> "text", secs |-> 0]}

\* status of a request the server never answers: the session raises a
\* timeout exception after REQUEST_TIMEOUT
NoResponse == 0

\* body_error: a 200 response whose body reports an error (error_code for
\* Covalent, errors for Bitquery)
ClientResponses ==
    {[status |-> s, header |-> NoHeader, body_error |-> FALSE] :
        s \in {NoResponse, 200, 401, 402, 404, 500}}
    \cup {[status |-> 200, header |-> NoHeader, body_error |-> TRUE]}
    \cup {[status |-> 429, header |-> h, body_error |-> FALSE] :
            h \in RetryAfterHeaders}

\* random.uniform(0, 1): the two ends of the interval
Jitters == {0, 1}

\* the delay slept after a 429
RateLimitDelay(header, attempt) ==
    CASE header.kind = "seconds" -> Min(header.secs, MAX_DELAY)
      [] header.kind = "absent"  -> Min(BASE_DELAY * 2^attempt, MAX_DELAY)
      [] header.kind = "text"    -> BASE_DELAY * 2^attempt

\* the exception a response other than 429 raises inside the try, None
\* when the response is returned
ResponseError(provider, resp) ==
    CASE resp.status = NoResponse -> "TimeoutException"
      [] resp.status = 401 ->
           IF provider = "covalent" THEN "Invalid Covalent API key"
           ELSE "Invalid API key"
      [] resp.status = 402 ->
           IF provider = "covalent" THEN "Covalent billing/credits exhausted"
           ELSE "Bitquery billing not set up"
      [] resp.status = 404 ->
           IF provider = "covalent" THEN "Covalent endpoint or data not found"
           ELSE "HTTPStatusError"
      [] resp.status = 500 -> "HTTPStatusError"
      [] resp.status = 200 /\ resp.body_error ->
           IF provider = "covalent" THEN "Covalent API error"
           ELSE "GraphQL errors"
      [] OTHER -> None

\* one pass of `for attempt in range(MAX_RETRIES)`: the jittered sleep when
\* attempt > 0, the request, and the handling of its response
ExecuteAttempt(c, resp, jitter) ==
    LET a == c.attempt
        backoff ==
            IF a > 0
            THEN <<[after |-> Len(c.requests), kind |-> "backoff",
                    secs |-> Min(BASE_DELAY * 2^a + jitter, MAX_DELAY)]>>
            ELSE <<>>
        slept == IF a > 0 THEN backoff[1].secs ELSE 0
        reqs == Append(c.requests, resp)
        more == a < MAX_RETRIES - 1
        err == ResponseError(c.provider, resp)
    IN  IF resp.status = 429
        THEN [c EXCEPT !.requests = reqs,
                       !.waits = c.waits \o backoff \o
                           <<[after |-> Len(reqs), kind |-> "rate_limit",
                              secs |-> RateLimitDelay(resp.header, a)]>>,
                       !.elapsed = @ + slept + RateLimitDelay(resp.header, a),
                       !.attempt = IF more THEN a + 1 ELSE a,
                       !.pc = IF more THEN "loop" ELSE "exhausted"]
        ELSE IF err # None
        THEN [c EXCEPT !.requests = reqs,
                       !.waits = c.waits \o backoff,
                       !.elapsed = @ + slept +
                           (IF resp.status = NoResponse
                            THEN REQUEST_TIMEOUT[c.provider] ELSE 0),
                       !.last_error = err,
                       !.attempt = IF more THEN a + 1 ELSE a,
                       !.pc = IF more THEN "loop" ELSE "exhausted"]
        ELSE [c EXCEPT !.requests = reqs,
                       !.waits = c.waits \o backoff,
                       !.elapsed = @ + slept,
                       !.pc = "returned"]

\* `raise last_error or Exception("Failed to execute ...")` after the loop
RaisedAfterLoop(c) ==
    IF c.last_error # None THEN c.last_error
    ELSE "Failed to execute after all retries"

\* what the provider's fetch function hands to the router when the client
\* call raised: fetch_wallet_activity_covalent re-raises;
\* fetch_wallet_activity_bitquery_live leaves its page loop and returns a
\* response built from the pages it has
FetchOnError(provider) ==
    IF provider = "covalent" THEN "raised" ELSE "returned"

\* the environments in which the router calls provider p first: p has its
\* key and is the selected provider; the other live providers work or raise
ClientEnvs(p) ==
    {e \in [keys : SUBSET LiveSet, source : {"", p},
            throws : {{}, LiveSet \ {p}}] :
        /\ p \in e.keys
        /\ get_selected_provider(_detect_available_providers(e.keys),
                                 e.source) = p}

ClientInit ==
    /\ \E p \in ClientProviders :
          /\ \E e \in ClientEnvs(p) :
                envKeys = e.keys /\ envSource = e.source /\ envThrows = e.throws
          /\ client = [NoClient EXCEPT !.provider = p, !.pc = "loop"]
    /\ routerResult = NoResult
    /\ PipelineFrame

ClientAttempt ==
    /\ client.pc = "loop"
    /\ \E resp \in ClientResponses, jitter \in Jitters :
          client' = ExecuteAttempt(client, resp, jitter)
    /\ UNCHANGED <<envKeys, envSource, envThrows, routerResult, pipelineVars>>

ClientRaise ==
    /\ client.pc = "exhausted"
    /\ client' = [client EXCEPT !.raised = RaisedAfterLoop(client),
                                !.router = FetchOnError(client.provider),
                                !.pc = "done"]
    /\ UNCHANGED <<envKeys, envSource, envThrows, routerResult, pipelineVars>>

ClientReturn ==
    /\ client.pc = "returned"
    /\ client' = [client EXCEPT !.router = "returned", !.pc = "done"]
    /\ UNCHANGED <<envKeys, envSource, envThrows, routerResult, pipelineVars>>

\* ProviderRouter.fetch_wallet_activity around the call: the provider's
\* fetch raises exactly when the client's failure reached the router
ClientRouted ==
    /\ client.pc = "done"
    /\ routerResult = NoResult
    /\ routerResult' =
          fetch_wallet_activity(envKeys, envSource,
              envThrows \cup (IF client.router = "raised"
                              THEN {client.provider} ELSE {}))
    /\ UNCHANGED <<envVars, pipelineVars>>

ClientNext == ClientAttempt \/ ClientRaise \/ ClientReturn \/ ClientRouted

SpecClient == ClientInit /\ [][ClientNext]_vars

\* ------------------------------------------------------------------------
\* Three-layer store (src/data_model.py, src/json_storage.py)
\* ------------------------------------------------------------------------
\* INSERT OR REPLACE: the row with the same primary key is replaced; the
\* new row takes created_at = CURRENT_TIMESTAMP
\* a plain INSERT: the row is added next to the one with the same key
Upsert_insert(table, row) == table \cup {row}

Upsert(table, row) == {r \in table : r.id # row.id} \cup {row}

save_raw_response(table, id, source, payload, t) ==
    Upsert(table, [id |-> id, source |-> source, payload |-> payload,
                   created_at |-> t])

normalize_event(table, ev, t) ==
    Upsert(table, [id |-> ev.event_id, event_type |-> ev.event_type,
                   wallet |-> ev.wallet, pool |-> ev.pool,
                   timestamp |-> ev.timestamp, source_id |-> ev.source_id,
                   created_at |-> t])

persist_brief(table, a, t) ==
    Upsert(table, [id |-> a.artifact_id, timestamp |-> a.timestamp,
                   source_ids |-> a.source_ids, event_count |-> a.event_count,
                   llm |-> a.llm, created_at |-> t])

get_raw_response(table, id) == {r \in table : r.id = id}

set_cursor(db, name, ts) == [db EXCEPT ![name] = ts]
\* a lookup that finds no row
get_cursor_missing(db, name) == NoTs

get_cursor(db, name) == db[name]

\* DELETE ... WHERE created_at < datetime('now', '-N days')
Retain(table, t, keep) == {r \in table : ~(r.created_at < t - keep)}

RawId(src, w, ts) == [src |-> src, w |-> w, ts |-> ts]
EventId(tx, ts) == [tx |-> tx, ts |-> ts]

\* ------------------------------------------------------------------------
\* Planner (src/nodes/planner.py)
\* ------------------------------------------------------------------------
\* lines 49-54: load the stored cursor of each monitored wallet that the
\* run state does not have
RECURSIVE LoadWalletCursors(_, _, _, _)
LoadWalletCursors(cursors, ws, i, db) ==
    IF i > Len(ws) THEN cursors
    ELSE LET key == WalletKey(ws[i]) IN
         LoadWalletCursors(
             IF ~DictHas(cursors, key) /\ get_cursor(db, key) # NoTs
             THEN DictPut(cursors, key, get_cursor(db, key))
             ELSE cursors,
             ws, i + 1, db)

\* lines 57-61
RECURSIVE LoadOtherCursors(_, _, _, _)
LoadOtherCursors(cursors, names, i, db) ==
    IF i > Len(names) THEN cursors
    ELSE LoadOtherCursors(
             IF ~DictHas(cursors, names[i]) /\ get_cursor(db, names[i]) # NoTs
             THEN DictPut(cursors, names[i], get_cursor(db, names[i]))
             ELSE cursors,
             names, i + 1, db)

\* a merge in which a stored cursor replaces the value of the run state
LoadCursors_stored_first(cursors, ws, db) ==
    LET loaded == LoadOtherCursors(LoadWalletCursors(cursors, ws, 1, db),
                                   <<"lp", "explore_metrics">>, 1, db)
    IN  [i \in 1..Len(loaded) |->
            IF get_cursor(db, loaded[i].k) # NoTs
            THEN [k |-> loaded[i].k, v |-> get_cursor(db, loaded[i].k)]
            ELSE loaded[i]]

LoadCursors(cursors, ws, db) ==
    LoadOtherCursors(LoadWalletCursors(cursors, ws, 1, db),
                     <<"lp", "explore_metrics">>, 1, db)

\* line 65: the condition under which the planner seeds
ShouldSeed(cursors, ws) ==
    /\ ~\E i \in 1..Len(cursors) : IsWalletKey(cursors[i].k)
    /\ Len(ws) > 0

\* lines 70-75: returns the cursors and the cursor table after seeding
RECURSIVE SeedWallets(_, _, _, _)
SeedWallets(cursors, db, ws, i) ==
    IF i > Len(ws) THEN [cursors |-> cursors, db |-> db]
    ELSE LET key == WalletKey(ws[i]) IN
         IF ~DictHas(cursors, key)
         THEN SeedWallets(DictPut(cursors, key, 0), set_cursor(db, key, 0),
                          ws, i + 1)
         ELSE SeedWallets(cursors, db, ws, i + 1)

\* the scan of src/planner_worker.py, which passes over a cursor of 0
FirstStaleWallet_truthy(cursors, t) ==
    LET stale == {i \in 1..Len(cursors) :
                     /\ IsWalletKey(cursors[i].k)
                     /\ cursors[i].v > 0
                     /\ t - cursors[i].v > CURSOR_STALE_WALLET}
    IN  IF stale = {} THEN 0
        ELSE CHOOSE i \in stale : \A j \in stale : i <= j

\* lines 87-90: index of the first stale wallet cursor, 0 when none
FirstStaleWallet(cursors, t) ==
    LET stale == {i \in 1..Len(cursors) :
                     /\ IsWalletKey(cursors[i].k)
                     /\ cursors[i].v # NoTs
                     /\ t - cursors[i].v > CURSOR_STALE_WALLET}
    IN  IF stale = {} THEN 0
        ELSE CHOOSE i \in stale : \A j \in stale : i <= j

\* a cap that lets spent = cap through
BudgetExceeded_strict(spent) == spent > BUDGET_DAILY

BudgetExceeded(spent) == spent >= BUDGET_DAILY

\* the whole node: the new run state, the new cursor table and what the
\* tick did
planner_node(s, ws, db, t) ==
    IF BudgetExceeded(s.spent_today)
    THEN [st |-> [s EXCEPT !.status = "capped"], db |-> db, seeded |-> {}]
    ELSE
    LET loaded == LoadCursors(s.cursors, ws, db)
        seed   == IF ShouldSeed(loaded, ws)
                  THEN SeedWallets(loaded, db, ws, 1)
                  ELSE [cursors |-> loaded, db |-> db]
        seeded == {k \in CursorNames : DictHas(seed.cursors, k)
                                       /\ ~DictHas(loaded, k)}
        cs     == seed.cursors
        first  == FirstStaleWallet(cs, t)
        base   == [s EXCEPT !.cursors = cs]
    IN  [db |-> seed.db, seeded |-> seeded,
         st |->
           IF first # 0
           THEN [base EXCEPT !.selected_action = "wallet_recon",
                             !.target_wallet = WalletOf(cs[first].k),
                             !.status = "working"]
           ELSE IF t - DictGet(cs, "lp", 0) > CURSOR_STALE_LP
           THEN [base EXCEPT !.selected_action = "lp_recon",
                             !.status = "working"]
           ELSE IF t - DictGet(cs, "explore_metrics", 0) > CURSOR_STALE_EXPLORE
           THEN [base EXCEPT !.selected_action = "explore_metrics",
                             !.status = "working"]
           ELSE [base EXCEPT !.status = "completed"]]

\* src/agent.py should_continue: the node a status routes to
\* a router that sends a failed run back to the worker
should_continue_retry(status) ==
    CASE status = "planning"  -> "planner"
      [] status = "working"   -> "worker"
      [] status = "analyzing" -> "analyze"
      [] status = "briefing"  -> "brief"
      [] status = "memory"    -> "memory"
      [] status = "failed"    -> "worker"
      [] OTHER                -> "idle"

should_continue(status) ==
    CASE status = "planning"  -> "planner"
      [] status = "working"   -> "worker"
      [] status = "analyzing" -> "analyze"
      [] status = "briefing"  -> "brief"
      [] status = "memory"    -> "memory"
      [] OTHER                -> "idle"

\* ------------------------------------------------------------------------
\* Fetched data (src/mock_tools.py, src/real_apis/*.py)
\* ------------------------------------------------------------------------
RawEvent(txHash, ts, kind, wallet, pool, logIndex) ==
    [txHash |-> txHash, timestamp |-> ts, kind |-> kind, wallet |-> wallet,
     pool |-> pool, logIndex |-> logIndex]

\* SIMPLE_LP_FIXTURES: timestamps are fixed when the module is imported
LpFixtures(ps) ==
    << RawEvent("0xsimple_lp_1", ps - 2, "lp_add", "0xwallet_1", "WETH/USDC", 0),
       RawEvent("0xsimple_lp_2", ps - 4, "lp_remove", "0xwallet_2", "WETH/USDC", 0),
       RawEvent("0xsimple_lp_3", ps - 6, "lp_add", "0xwallet_3", "DEGEN/WETH", 0) >>

fetch_lp_activity(since_ts, ps) ==
    SelectSeq(LpFixtures(ps), LAMBDA e : e.timestamp >= since_ts)

\* The events a wallet provider returns.  Covalent events carry the keys
\* "timestamp", "tx" and "type"; the Alchemy, Bitquery and mock events
\* carry "ts", "tx" and "type".  None of them has "txHash", "kind" or
\* "logIndex".
ProviderEvents(p, w) ==
    IF p = "covalent"
    THEN << RawEvent(None, StartTime - 1, None, w, None, None),
            RawEvent(None, StartTime - 30, None, w, None, None) >>
    ELSE << RawEvent(None, NoTs, None, w, None, None) >>

\* ------------------------------------------------------------------------
\* Worker (src/nodes/worker.py)
\* ------------------------------------------------------------------------
\* returns the new run state, Layer 1, the cursor table and the router result
worker_node(s, tbl, db, t, ps, keys, source, throwing) ==
    IF s.selected_action = None
    THEN [st |-> [s EXCEPT !.events = <<>>, !.status = "completed"],
          scratch |-> tbl, db |-> db, router |-> NoResult]
    ELSE IF s.selected_action = "wallet_recon"
    THEN LET key    == WalletKey(s.target_wallet)
             since  == DictGet(s.cursors, key, 0)
             resp   == fetch_wallet_activity(keys, source, throwing)
             raw_id == RawId(resp.tag \o "_wallet", s.target_wallet, t)
         IN  IF resp.raised
             THEN \* lines 173-180: the except branch of the worker
                  [st |-> [s EXCEPT !.events = <<>>, !.error = "Exception",
                                    !.status = "failed"],
                   scratch |-> tbl, db |-> db, router |-> resp]
             ELSE [st |-> [s EXCEPT
                             !.events = ProviderEvents(resp.served, s.target_wallet),
                             !.source_ids = {raw_id},
                             !.status = "analyzing"],
                   scratch |-> save_raw_response(tbl, raw_id, "wallet_activity",
                                                 resp.served, t),
                   db |-> set_cursor(db, key, t), router |-> resp]
    ELSE IF s.selected_action = "lp_recon"
    THEN LET since  == DictGet(s.cursors, "lp", 0)
             raw_id == RawId("lp_activity", "", since)
         IN  [st |-> [s EXCEPT !.events = fetch_lp_activity(since, ps),
                               !.source_ids = {raw_id},
                               !.status = "analyzing"],
              scratch |-> save_raw_response(tbl, raw_id, "lp_activity", "lp", t),
              db |-> set_cursor(db, "lp", t), router |-> NoResult]
    ELSE \* explore_metrics
         LET raw_id == RawId("web_metrics", "", t)
         IN  [st |-> [s EXCEPT
                        !.events = << RawEvent("metrics_" \o ToString(t), t,
                                               "metrics", None, "WETH/USDC", 0) >>,
                        !.source_ids = {raw_id},
                        !.status = "analyzing"],
              scratch |-> save_raw_response(tbl, raw_id, "web_metrics",
                                            "metrics", t),
              db |-> set_cursor(db, "explore_metrics", t), router |-> NoResult]

\* ------------------------------------------------------------------------
\* Analyzer (src/nodes/analyze.py)
\* ------------------------------------------------------------------------
EventTimestamp(e) == IF e.timestamp = NoTs THEN 0 ELSE e.timestamp
EventKind(e) == IF e.kind = None THEN "unknown" ELSE e.kind
EventPool(e) == IF e.pool = None THEN "unknown" ELSE e.pool

\* line 63: event.get("txHash", f"event_{int(time.time())}")
EventIdOf(e, t) ==
    IF e.txHash # None THEN EventId(e.txHash, 0) ELSE EventId("event", t)

\* line 47: the worker's first source id, or a generated one
SourceIdOf(worker_source_ids, t) ==
    IF worker_source_ids # {}
    THEN CHOOSE x \in worker_source_ids : TRUE
    ELSE RawId("event", "", t)

NormalizedOf(e, worker_source_ids, t) ==
    [event_id |-> EventIdOf(e, t), wallet |-> e.wallet,
     event_type |-> EventKind(e), pool |-> e.pool,
     timestamp |-> IF e.timestamp = NoTs THEN t ELSE e.timestamp,
     source_id |-> SourceIdOf(worker_source_ids, t)]

RECURSIVE SaveEvents(_, _, _, _, _)
SaveEvents(tbl, recent, i, worker_source_ids, t) ==
    IF i > Len(recent) THEN tbl
    ELSE SaveEvents(normalize_event(tbl, NormalizedOf(recent[i], worker_source_ids, t), t),
                    recent, i + 1, worker_source_ids, t)

CountWhere(sq, P(_)) == Cardinality({i \in 1..Len(sq) : P(sq[i])})
SetMax(S) == IF S = {} THEN 0 ELSE CHOOSE x \in S : \A y \in S : y <= x

\* lines 78-115: volume = min(n/10, 1), activity = min(kinds/3, 1),
\* concentration = 1 - top/n, pool_activity_score = min(lp/5, 1)
Signals(recent) ==
    LET total == Len(recent)
        kinds == Cardinality({EventKind(recent[i]) : i \in 1..Len(recent)})
        top   == SetMax({CountWhere(recent, LAMBDA e : EventPool(e) = q) :
                            q \in {EventPool(recent[i]) : i \in 1..Len(recent)}})
        lp    == CountWhere(recent, LAMBDA e : e.kind \in {"lp_add", "lp_remove"})
    IN  [total         |-> total,
         volume        |-> <<Min(total, 10), 10>>,
         activity      |-> <<Min(kinds, 3), 3>>,
         concentration |-> IF total > 0 THEN <<total - top, total>> ELSE <<0, 1>>,
         pool_activity |-> IF lp > 0 THEN <<Min(lp, 5), 5>> ELSE <<0, 1>>,
         present       |-> TRUE]

analyze_node(s, tbl, t) ==
    IF s.events = <<>>
    THEN [st |-> [s EXCEPT !.signals = NoSignals, !.status = "completed"],
          events |-> tbl]
    ELSE LET cutoff == t - ANALYZE_WINDOW
             recent == SelectSeq(s.events, LAMBDA e : EventTimestamp(e) >= cutoff)
             ids    == s.source_ids \cup
                       (IF recent = <<>> THEN {} ELSE {SourceIdOf(s.source_ids, t)})
         IN  [st |-> [s EXCEPT !.signals = Signals(recent),
                               !.normalized = Len(recent),
                               !.source_ids = ids,
                               !.status = "briefing"],
              events |-> SaveEvents(tbl, recent, 1, s.source_ids, t)]

\* ------------------------------------------------------------------------
\* Brief gate (src/nodes/brief.py)
\* ------------------------------------------------------------------------
\* BRIEF_THRESHOLD_SIGNAL = 0.6 as the fraction 6/10
BRIEF_THRESHOLD_SIGNAL == <<6, 10>>
\* num/den >= 0.6
AtLeastThreshold(num, den) ==
    num * BRIEF_THRESHOLD_SIGNAL[2] >= BRIEF_THRESHOLD_SIGNAL[1] * den

\* max(volume_signal, activity_signal, concentration_signal) >= 0.6
MaxGeneralSignalMet(sig) ==
    /\ sig.present
    /\ \E x \in {sig.volume, sig.activity, sig.concentration} :
          AtLeastThreshold(x[1], x[2])

\* line 66-67: signals.get("pool_activity_score", 0.0) >= 0.6
LpThresholdMet(sig) == AtLeastThreshold(sig.pool_activity[1], sig.pool_activity[2])

\* a cooldown that still holds at exactly 6h
CooldownActive_inclusive(t, last_brief_at) == t - last_brief_at <= BRIEF_COOLDOWN

CooldownActive(t, last_brief_at) == t - last_brief_at < BRIEF_COOLDOWN

LowActivity(sig) ==
    /\ sig.total < BRIEF_THRESHOLD_EVENTS
    /\ ~MaxGeneralSignalMet(sig)
    /\ ~LpThresholdMet(sig)

\* the Artifact dataclass (src/data_model.py) and the keyword arguments
\* brief_node passes to its constructor
ArtifactRequired ==
    {"artifact_id", "timestamp", "summary_text", "signals", "next_watchlist",
     "source_ids", "event_count"}
ArtifactFields ==
    ArtifactRequired \cup {"summary_text_llm", "llm_struct", "llm_validation",
                           "llm_model", "llm_tokens"}
BriefArtifactKwargs ==
    {"artifact_id", "timestamp", "summary_text", "signals", "discovered_pools",
     "source_ids", "event_count", "summary_text_llm", "llm_struct",
     "llm_validation", "llm_model", "llm_tokens"}
\* a dataclass constructor raises TypeError on an unknown keyword or a
\* missing required field
ArtifactConstructs(kwargs) ==
    kwargs \subseteq ArtifactFields /\ ArtifactRequired \subseteq kwargs

\* what the LLM call does: it returns a parsable brief, it raises, or it
\* returns text that is not JSON
LlmOutcomes == {"ok", "raises", "non_json"}

\* lines 146-197 with BRIEF_MODE "both": the LLM fields of the artifact.
\* A raise leaves them None; on non-JSON text generate_llm_brief
\* (src/nodes/brief_llm.py lines 94-112) returns an error brief, whose
\* fields are stored
LlmFields(llm) ==
    IF llm = "ok" THEN "llm_brief"
    ELSE IF llm = "non_json" THEN "error_brief"
    ELSE None

\* a brief node whose skips stamp last_brief_at
brief_node_stamping(s, tbl, t, llm) ==
    IF CooldownActive(t, s.last_brief_at)
    THEN [st |-> [s EXCEPT !.reason = "cooldown", !.status = "memory"],
          artifacts |-> tbl, raised |-> FALSE]
    ELSE IF LowActivity(s.signals)
    THEN [st |-> [s EXCEPT !.reason = "low_activity", !.status = "memory",
                           !.last_brief_at = t],
          artifacts |-> tbl, raised |-> FALSE]
    ELSE [st |-> s, artifacts |-> tbl, raised |-> TRUE]

brief_node(s, tbl, t, llm) ==
    IF CooldownActive(t, s.last_brief_at)
    THEN [st |-> [s EXCEPT !.reason = "cooldown", !.status = "memory"],
          artifacts |-> tbl, raised |-> FALSE]
    ELSE IF LowActivity(s.signals)
    THEN [st |-> [s EXCEPT !.reason = "low_activity", !.status = "memory"],
          artifacts |-> tbl, raised |-> FALSE]
    ELSE IF ~ArtifactConstructs(BriefArtifactKwargs)
    THEN \* TypeError leaves brief_node
         [st |-> s, artifacts |-> tbl, raised |-> TRUE]
    ELSE [st |-> [s EXCEPT !.brief_emitted = TRUE, !.last_brief_at = t,
                           !.reason = "emitted", !.status = "memory"],
          artifacts |->
            persist_brief(tbl, [artifact_id |-> RawId("brief", "", t),
                                timestamp |-> t,
                                source_ids |-> s.source_ids,
                                event_count |-> s.signals.total,
                                llm |-> LlmFields(llm)], t),
          raised |-> FALSE]

\* src/agent.py lines 510-514: an exception that leaves a node is caught by
\* run, which returns the initial state with status failed and the error
\* appended to its messages
run_except(initial) ==
    [initial EXCEPT !.status = "failed",
                    !.messages = Append(@, "AI(error): Execution failed")]

\* ------------------------------------------------------------------------
\* Memory (src/nodes/memory.py)
\* ------------------------------------------------------------------------
memory_node(s, tbl, t) ==
    LET t1 == IF s.brief_emitted
              THEN save_raw_response(tbl, RawId("brief", "", t), "briefs",
                                     "brief", t)
              ELSE tbl
        t2 == IF s.signals.present
              THEN save_raw_response(t1, RawId("metrics", "", t),
                                     "derived_metrics", "signals", t)
              ELSE t1
        cs == IF s.selected_action = "wallet_recon" /\ s.target_wallet # None
              THEN DictPut(s.cursors, WalletKey(s.target_wallet), t)
              ELSE IF s.selected_action = "lp_recon"
              THEN DictPut(s.cursors, "lp", t)
              ELSE IF s.selected_action = "explore_metrics"
              THEN DictPut(s.cursors, "explore_metrics", t)
              ELSE s.cursors
    IN  [st |-> [s EXCEPT !.cursors = cs, !.status = "completed"],
         scratch |-> t2]

\* ------------------------------------------------------------------------
\* cleanup_old_data (src/data_model.py), default retention
\* ------------------------------------------------------------------------
cleanup_old_data(l1, l2, l3, t) ==
    [scratch   |-> Retain(l1, t, SCRATCH_DAYS),
     events    |-> Retain(l2, t, EVENTS_DAYS),
     artifacts |-> Retain(l3, t, ARTIFACTS_DAYS)]

\* ------------------------------------------------------------------------
\* Pipeline specification
\* ------------------------------------------------------------------------
MaxElapsed == 200
ClockSteps == {1, 3, 170}
SpentValues == {BUDGET_DAILY - 1, BUDGET_DAILY, BUDGET_DAILY + 1}
LastBriefValues(t) == {0, t - BRIEF_COOLDOWN, t - (BRIEF_COOLDOWN - 1)}
PipelineEnvs ==
    { [keys |-> {}, source |-> "", throws |-> {}],
      [keys |-> {"covalent"}, source |-> "covalent", throws |-> {}],
      [keys |-> {"alchemy", "covalent"}, source |-> "", throws |-> {"alchemy"}] }

Init ==
    /\ \E e \in PipelineEnvs :
          envKeys = e.keys /\ envSource = e.source /\ envThrows = e.throws
    /\ routerResult = NoResult
    /\ client = NoClient
    /\ now = StartTime
    /\ tz = 0
    /\ procStart = StartTime
    /\ wallets \in WalletLists
    /\ dbCursors = [n \in CursorNames |-> NoTs]
    /\ scratch = {}
    /\ events = {}
    /\ artifacts = {}
    /\ st = InitState
    /\ pc = "ready"
    /\ runs = 0
    /\ hist = NoHist

\* a run is started: by a new process with an empty run state, or by the
\* running process with the cursors of the run before
StartRun ==
    /\ pc = "ready"
    /\ runs < MaxRuns
    /\ \E restart \in BOOLEAN, spent \in SpentValues,
          lb \in LastBriefValues(now) :
          /\ st' = [InitState EXCEPT
                      !.cursors = IF restart THEN <<>> ELSE st.cursors,
                      !.spent_today = spent,
                      !.last_brief_at = lb]
          /\ procStart' = IF restart THEN now ELSE procStart
          /\ hist' = [NoHist EXCEPT !.fresh = restart, !.input = st']
    /\ pc' = should_continue("planning")
    /\ runs' = runs + 1
    /\ UNCHANGED <<envVars, routerResult, now, wallets, dbCursors, storeVars>>

Planner ==
    /\ pc = "planner"
    /\ LET r == planner_node(st, wallets, dbCursors, now) IN
         /\ st' = r.st
         /\ dbCursors' = r.db
         /\ hist' = [hist EXCEPT !.seeded = r.seeded, !.node = "planner"]
         /\ pc' = should_continue(r.st.status)
    /\ UNCHANGED <<envVars, routerResult, now, procStart, wallets, storeVars, runs>>

Worker ==
    /\ pc = "worker"
    /\ LET r == worker_node(st, scratch, dbCursors, now, procStart,
                            envKeys, envSource, envThrows) IN
         /\ st' = r.st
         /\ scratch' = r.scratch
         /\ dbCursors' = r.db
         /\ routerResult' = r.router
         /\ pc' = should_continue(r.st.status)
    /\ hist' = [hist EXCEPT !.node = "worker",
                            !.failed = (st'.status = "failed")]
    /\ UNCHANGED <<envVars, now, procStart, wallets, events, artifacts, runs>>

Analyze ==
    /\ pc = "analyze"
    /\ LET r == analyze_node(st, events, now) IN
         /\ st' = r.st
         /\ events' = r.events
         /\ pc' = should_continue(r.st.status)
    /\ hist' = [hist EXCEPT !.node = "analyze"]
    /\ UNCHANGED <<envVars, routerResult, now, procStart, wallets, dbCursors,
                   scratch, artifacts, runs>>

Brief ==
    /\ pc = "brief"
    /\ \E llm \in LlmOutcomes :
         LET r == brief_node(st, artifacts, now, llm)
             s == IF r.raised THEN run_except(hist.input) ELSE r.st
         IN
           /\ st' = s
           /\ artifacts' = r.artifacts
           /\ pc' = should_continue(s.status)
           /\ hist' = [hist EXCEPT !.node = "brief", !.llm = llm,
                                   !.failed = r.raised]
    /\ UNCHANGED <<envVars, routerResult, now, procStart, wallets, dbCursors,
                   scratch, events, runs>>

Memory ==
    /\ pc = "memory"
    /\ LET r == memory_node(st, scratch, now) IN
         /\ st' = r.st
         /\ scratch' = r.scratch
         /\ pc' = should_continue(r.st.status)
    /\ hist' = [hist EXCEPT !.node = "memory"]
    /\ UNCHANGED <<envVars, routerResult, now, procStart, wallets, dbCursors,
                   events, artifacts, runs>>

\* time passes between two runs
Tick ==
    /\ pc = "idle"
    /\ \E d \in ClockSteps :
         /\ now + d <= StartTime + MaxElapsed
         /\ now' = now + d
    /\ pc' = "ready"
    /\ UNCHANGED <<envVars, routerResult, procStart, wallets, dbCursors,
                   storeVars, st, runs, hist>>

\* the tracked wallet list is edited between runs
EditWallets ==
    /\ pc = "ready"
    /\ \E ws \in WalletLists : ws # wallets /\ wallets' = ws
    /\ UNCHANGED <<envVars, routerResult, now, procStart, dbCursors,
                   storeVars, st, pc, runs, hist>>

Cleanup ==
    /\ pc = "ready"
    /\ LET r == cleanup_old_data(scratch, events, artifacts, now) IN
         /\ scratch' = r.scratch
         /\ events' = r.events
         /\ artifacts' = r.artifacts
    /\ UNCHANGED <<envVars, routerResult, now, procStart, wallets, dbCursors,
                   st, pc, runs, hist>>

Next ==
    \/ StartRun
    \/ Planner
    \/ Worker
    \/ Analyze
    \/ Brief
    \/ Memory
    \/ Tick
    \/ EditWallets
    \/ Cleanup

Spec == Init /\ [][Next]_vars

TypeOK ==
    /\ pc \in {"idle", "ready", "planner", "worker", "analyze", "brief", "memory"}
    /\ runs \in 0..MaxRuns
    /\ now \in StartTime..(StartTime + MaxElapsed)

\* ------------------------------------------------------------------------
\* Cycle specification: Worker then Analyzer, run twice on the same input
\* state (src/tests/test_enhanced_lp.py test_lp_event_idempotency,
\* src/tests/test_planner_worker.py test_worker_idempotent_saves_and_provenance)
\* ------------------------------------------------------------------------
\* the fetches whose upstream answer is the same on both passes; an
\* explore_metrics pass takes a new snapshot each time
CycleActions == {"wallet_recon", "lp_recon"}
CycleLpCursors == {NoTs, 0, StartTime - 10, StartTime - 3}
CycleSteps == {0, 1}

CycleInit ==
    /\ \E e \in PipelineEnvs :
          envKeys = e.keys /\ envSource = e.source /\ envThrows = e.throws
    /\ routerResult = NoResult
    /\ client = NoClient
    /\ now = StartTime
    /\ tz = 0
    /\ procStart = StartTime
    /\ wallets = <<"A">>
    /\ dbCursors = [n \in CursorNames |-> NoTs]
    /\ scratch = {}
    /\ events = {}
    /\ artifacts = {}
    /\ \E a \in CycleActions, c \in CycleLpCursors :
          st = [InitState EXCEPT
                  !.status = "working",
                  !.selected_action = a,
                  !.target_wallet = IF a = "wallet_recon" THEN "A" ELSE None,
                  !.cursors = IF c = NoTs THEN <<>>
                              ELSE <<[k |-> "lp", v |-> c]>>]
    /\ pc = "worker"
    /\ runs = 1
    /\ hist = [NoHist EXCEPT !.input = st]

CycleEnded == pc \notin {"worker", "analyze"}

\* the second pass: the caller hands the same state to the worker again
CycleRerun ==
    /\ CycleEnded
    /\ runs = 1
    /\ \E d \in CycleSteps : now' = now + d
    /\ st' = hist.input
    /\ hist' = [hist EXCEPT !.first = [n |-> st.normalized,
                                       l2 |-> Cardinality(events)],
                            !.node = "rerun"]
    /\ pc' = "worker"
    /\ runs' = 2
    /\ UNCHANGED <<envVars, routerResult, procStart, wallets, dbCursors,
                   storeVars>>

CycleNext ==
    \/ Worker
    \/ Analyze
    \/ CycleRerun

SpecCycle == CycleInit /\ [][CycleNext]_vars

\* ------------------------------------------------------------------------
\* Store specification: the store's operations called directly
\* (src/tests/test_three_layer_data_model.py)
\* ------------------------------------------------------------------------
MaxOps == 4
StoreSteps == {1, 170}
StoreRawIds == {RawId("lp_activity", "", 0), RawId("web_metrics", "", StartTime)}
StorePayloads == {"p1", "p2"}
StoreEventIds == {EventId("0xsimple_lp_1", 0), EventId("0xsimple_lp_2", 0)}
StoreEventTypes == {"lp_add", "swap"}
StoreArtifactIds == {RawId("brief", "", StartTime)}
StoreCounts == {1, 2}

\* the contents a caller can read back: created_at is not returned
Visible(table) == {[r EXCEPT !.created_at = 0] : r \in table}
VisibleStore == <<Visible(scratch), Visible(events), Visible(artifacts)>>

Called(c) ==
    [hist EXCEPT !.repeat = (hist.call.op = c.op /\ hist.call.key = c.key
                             /\ hist.call.content = c.content),
                 !.call = c, !.prev = VisibleStore, !.node = c.op]

StoreInit ==
    /\ envKeys = {} /\ envSource = "" /\ envThrows = {}
    /\ routerResult = NoResult
    /\ client = NoClient
    /\ now = StartTime
    /\ tz = 0
    /\ procStart = StartTime
    /\ wallets = <<>>
    /\ dbCursors = [n \in CursorNames |-> NoTs]
    /\ scratch = {}
    /\ events = {}
    /\ artifacts = {}
    /\ st = InitState
    /\ pc = "store"
    /\ runs = 0
    /\ hist = NoHist

SaveRaw ==
    /\ runs < MaxOps
    /\ \E id \in StoreRawIds, p \in StorePayloads :
          /\ scratch' = save_raw_response(scratch, id, id.src, p, now)
          /\ hist' = Called([op |-> "save_raw_response", key |-> id,
                             content |-> p])
    /\ runs' = runs + 1
    /\ UNCHANGED <<envVars, routerResult, now, procStart, wallets, dbCursors,
                   events, artifacts, st, pc>>

\* the caller passes the id of a raw response it has saved
NormalizeEvent ==
    /\ runs < MaxOps
    /\ \E id \in StoreEventIds, ty \in StoreEventTypes,
          src \in {r.id : r \in scratch} :
          /\ events' = normalize_event(events,
                          [event_id |-> id, wallet |-> "0xwallet_1",
                           event_type |-> ty, pool |-> "WETH/USDC",
                           timestamp |-> StartTime - 2, source_id |-> src], now)
          /\ hist' = Called([op |-> "normalize_event", key |-> id,
                             content |-> <<ty, src>>])
    /\ runs' = runs + 1
    /\ UNCHANGED <<envVars, routerResult, now, procStart, wallets, dbCursors,
                   scratch, artifacts, st, pc>>

PersistBrief ==
    /\ runs < MaxOps
    /\ \E id \in StoreArtifactIds, n \in StoreCounts,
          srcs \in (SUBSET {r.id : r \in scratch}) \ {{}} :
          /\ artifacts' = persist_brief(artifacts,
                             [artifact_id |-> id, timestamp |-> StartTime,
                              source_ids |-> srcs, event_count |-> n,
                              llm |-> None], now)
          /\ hist' = Called([op |-> "persist_brief", key |-> id,
                             content |-> <<n, srcs>>])
    /\ runs' = runs + 1
    /\ UNCHANGED <<envVars, routerResult, now, procStart, wallets, dbCursors,
                   scratch, events, st, pc>>

\* time passes between two calls
StoreTick ==
    /\ runs < MaxOps
    /\ hist.node # "tick"
    /\ \E d \in StoreSteps : now' = now + d
    /\ hist' = [hist EXCEPT !.node = "tick"]
    /\ runs' = runs + 1
    /\ UNCHANGED <<envVars, routerResult, procStart, wallets, dbCursors,
                   storeVars, st, pc>>

StoreCleanup ==
    /\ runs < MaxOps
    /\ LET r == cleanup_old_data(scratch, events, artifacts, now) IN
         /\ scratch' = r.scratch
         /\ events' = r.events
         /\ artifacts' = r.artifacts
    /\ hist' = [hist EXCEPT !.call = NoCall, !.repeat = FALSE,
                            !.node = "cleanup"]
    /\ runs' = runs + 1
    /\ UNCHANGED <<envVars, routerResult, now, procStart, wallets, dbCursors,
                   st, pc>>

StoreNext ==
    \/ SaveRaw
    \/ NormalizeEvent
    \/ PersistBrief
    \/ StoreTick
    \/ StoreCleanup

SpecStore == StoreInit /\ [][StoreNext]_vars

\* ------------------------------------------------------------------------
\* Gate specification: brief_node called on a state the caller built
\* (src/tests/test_lp_brief_gating.py)
\* ------------------------------------------------------------------------
GateTotals == {0, BRIEF_THRESHOLD_EVENTS - 1, BRIEF_THRESHOLD_EVENTS,
               BRIEF_THRESHOLD_EVENTS + 1}
GateSignals == {<<0, 1>>, <<5, 10>>, <<6, 10>>, <<7, 10>>}

GateInit ==
    /\ envKeys = {} /\ envSource = "" /\ envThrows = {}
    /\ routerResult = NoResult
    /\ client = NoClient
    /\ now = StartTime
    /\ tz = 0
    /\ procStart = StartTime
    /\ wallets = <<>>
    /\ dbCursors = [n \in CursorNames |-> NoTs]
    /\ scratch = {[id |-> id, source |-> id.src, payload |-> "p1",
                   created_at |-> StartTime] : id \in StoreRawIds}
    /\ events = {}
    /\ artifacts = {}
    /\ \E total \in GateTotals, v, a, c, l \in GateSignals,
          lb \in LastBriefValues(now), srcs \in SUBSET StoreRawIds :
          st = [InitState EXCEPT
                  !.status = "briefing",
                  !.selected_action = "lp_recon",
                  !.signals = [total |-> total, volume |-> v, activity |-> a,
                               concentration |-> c, pool_activity |-> l,
                               present |-> TRUE],
                  !.last_brief_at = lb,
                  !.source_ids = srcs]
    /\ pc = "brief"
    /\ runs = 1
    /\ hist = [NoHist EXCEPT !.input = st]

GateNext ==
    \/ Brief
    \/ Memory

SpecGate == GateInit /\ [][GateNext]_vars

\* ------------------------------------------------------------------------
\* Tick specification: a new process runs one tick against a store whose
\* cursors earlier runs left at ages around the staleness thresholds
\* ------------------------------------------------------------------------
CursorAges(threshold) == {threshold - 1, threshold, threshold + 1}
StoredCursors(t, threshold) ==
    {NoTs, 0} \cup {t - a : a \in CursorAges(threshold)}

TickInit ==
    /\ envKeys = {} /\ envSource = "" /\ envThrows = {}
    /\ routerResult = NoResult
    /\ client = NoClient
    /\ now = StartTime
    /\ tz = 0
    /\ procStart = StartTime
    /\ wallets \in {<<>>, <<"A">>}
    /\ \E a \in StoredCursors(now, CURSOR_STALE_WALLET),
          l \in StoredCursors(now, CURSOR_STALE_LP),
          e \in StoredCursors(now, CURSOR_STALE_EXPLORE) :
          dbCursors = [n \in CursorNames |->
                          CASE n = WalletKey("A") -> a
                            [] n = "lp" -> l
                            [] n = "explore_metrics" -> e
                            [] OTHER -> NoTs]
    /\ scratch = {}
    /\ events = {}
    /\ artifacts = {}
    /\ \E spent \in SpentValues : st = [InitState EXCEPT !.spent_today = spent]
    /\ pc = "planner"
    /\ runs = 1
    /\ hist = [NoHist EXCEPT !.fresh = TRUE, !.input = st]

TickNext ==
    \/ Planner
    \/ Worker

SpecTick == TickInit /\ [][TickNext]_vars

\* ------------------------------------------------------------------------
\* Fetch specification: the worker's wallet_recon whose router call goes
\* through the provider client (src/nodes/worker.py lines 35-91)
\* ------------------------------------------------------------------------
\* the state the planner hands over for wallet A, seeded at 0
FetchState ==
    [InitState EXCEPT !.cursors = <<[k |-> WalletKey("A"), v |-> 0]>>,
                      !.selected_action = "wallet_recon",
                      !.target_wallet = "A",
                      !.status = "working"]

FetchWorker ==
    /\ client.pc = "done"
    /\ pc = "idle"
    /\ LET r == worker_node(FetchState, scratch, dbCursors, now, procStart,
                            envKeys, envSource,
                            envThrows \cup (IF client.router = "raised"
                                            THEN {client.provider} ELSE {}))
       IN
         /\ st' = r.st
         /\ scratch' = r.scratch
         /\ dbCursors' = r.db
         /\ routerResult' = r.router
         /\ pc' = should_continue(r.st.status)
    /\ hist' = [hist EXCEPT !.node = "worker",
                            !.failed = (st'.status = "failed")]
    /\ UNCHANGED <<envVars, now, procStart, wallets, events, artifacts, runs>>

FetchNext ==
    \/ ClientAttempt
    \/ ClientRaise
    \/ ClientReturn
    \/ FetchWorker

SpecFetch == ClientInit /\ [][FetchNext]_vars

\* ------------------------------------------------------------------------
\* Merge specification: the planner called on a state the caller built,
\* against a cursor table filled beforehand
\* (src/tests/test_cursor_persistence.py)
\* ------------------------------------------------------------------------
MergeStored(t) == {NoTs, t - 1}
MergeInState(t) == {NoTs, t - 5}
OptEntry(k, v) == IF v = NoTs THEN <<>> ELSE <<[k |-> k, v |-> v]>>

MergeInit ==
    /\ envKeys = {} /\ envSource = "" /\ envThrows = {}
    /\ routerResult = NoResult
    /\ client = NoClient
    /\ now = StartTime
    /\ tz = 0
    /\ procStart = StartTime
    /\ wallets \in {<<"A">>, <<"A", "B">>}
    /\ \E a, b, l \in MergeStored(now) :
          dbCursors = [n \in CursorNames |->
                          CASE n = WalletKey("A") -> a
                            [] n = WalletKey("B") -> b
                            [] n = "lp" -> l
                            [] OTHER -> NoTs]
    /\ scratch = {}
    /\ events = {}
    /\ artifacts = {}
    /\ \E a, b, l \in MergeInState(now) :
          st = [InitState EXCEPT
                  !.cursors = OptEntry(WalletKey("A"), a)
                              \o OptEntry(WalletKey("B"), b)
                              \o OptEntry("lp", l)]
    /\ pc = "planner"
    /\ runs = 1
    /\ hist = [NoHist EXCEPT !.input = st]

SpecMerge == MergeInit /\ [][TickNext]_vars

\* ------------------------------------------------------------------------
\* The graph of LangGraphAgent (src/agent.py), whose planner and worker are
\* the ones of src/planner_worker.py
\* ------------------------------------------------------------------------
\* MOCK_WALLET_ACTIVITY (src/tests/test_planner_worker.py): timestamps are
\* fixed when the module is imported
MockWalletActivity(ps) ==
    << RawEvent("0x1234", ps - 2, "swap", None, "WETH/USDC", 0),
       RawEvent("0x1234", ps - 2, "swap", None, "WETH/USDC", 1),
       RawEvent("0xabcd", ps - 4, "lp_add", None, "WETH/USDC", 0) >>

\* planner_worker.planner_node: the cursors are those of the run state
\* alone; a wallet cursor of 0 is passed over (`and cursor_ts`)
pw_planner_node(s, t) ==
    IF BudgetExceeded(s.spent_today)
    THEN [s EXCEPT !.status = "capped"]
    ELSE
    LET cs    == s.cursors
        stale == {i \in 1..Len(cs) :
                     /\ IsWalletKey(cs[i].k)
                     /\ cs[i].v # 0
                     /\ t - cs[i].v > CURSOR_STALE_WALLET}
    IN  IF stale # {}
        THEN [s EXCEPT !.selected_action = "wallet_recon",
                       !.target_wallet =
                           WalletOf(cs[CHOOSE i \in stale :
                                          \A j \in stale : i <= j].k),
                       !.status = "working"]
        ELSE IF t - DictGet(cs, "lp", 0) > CURSOR_STALE_LP
        THEN [s EXCEPT !.selected_action = "lp_recon", !.status = "working"]
        ELSE IF t - DictGet(cs, "explore_metrics", 0) > CURSOR_STALE_EXPLORE
        THEN [s EXCEPT !.selected_action = "explore_metrics",
                       !.status = "working"]
        ELSE [s EXCEPT !.status = "completed"]

\* planner_worker.worker_node: the raw response is saved under an id made
\* of the cursor the fetch started from, then the stored cursor is set
pw_worker_node(s, tbl, db, t, ps) ==
    IF s.selected_action = None
    THEN [st |-> [s EXCEPT !.events = <<>>, !.status = "completed"],
          scratch |-> tbl, db |-> db]
    ELSE IF s.selected_action = "wallet_recon"
    THEN LET key    == WalletKey(s.target_wallet)
             since  == DictGet(s.cursors, key, 0)
             raw_id == RawId("wallet_activity", s.target_wallet, since)
         IN  [st |-> [s EXCEPT
                        !.events = SelectSeq(MockWalletActivity(ps),
                                             LAMBDA e : e.timestamp >= since),
                        !.status = "analyzing"],
              scratch |-> save_raw_response(tbl, raw_id, "wallet_activity",
                                            "wallet", t),
              db |-> set_cursor(db, key, t)]
    ELSE IF s.selected_action = "lp_recon"
    THEN LET since  == DictGet(s.cursors, "lp", 0)
             raw_id == RawId("lp_activity", "", since)
         IN  [st |-> [s EXCEPT !.events = fetch_lp_activity(since, ps),
                               !.status = "analyzing"],
              scratch |-> save_raw_response(tbl, raw_id, "lp_activity", "lp", t),
              db |-> set_cursor(db, "lp", t)]
    ELSE LET raw_id == RawId("web_metrics", "", t)
         IN  [st |-> [s EXCEPT
                        !.events = << RawEvent("metrics_" \o ToString(t), t,
                                               "metrics", None, "WETH/USDC", 0) >>,
                        !.status = "analyzing"],
              scratch |-> save_raw_response(tbl, raw_id, "web_metrics",
                                            "metrics", t),
              db |-> set_cursor(db, "explore_metrics", t)]

AgentInit ==
    /\ envKeys = {} /\ envSource = "" /\ envThrows = {}
    /\ routerResult = NoResult
    /\ client = NoClient
    /\ now = StartTime
    /\ tz = 0
    /\ procStart = StartTime
    /\ wallets \in WalletLists
    /\ dbCursors = [n \in CursorNames |-> NoTs]
    /\ scratch = {}
    /\ events = {}
    /\ artifacts = {}
    /\ st = InitState
    /\ pc = "ready"
    /\ runs = 0
    /\ hist = NoHist

\* LangGraphAgent.run builds the initial state (cursors {}, spent_today 0)
\* in the running process or in a new one; budget_node passes it on
AgentRun ==
    /\ pc = "ready"
    /\ runs < MaxRuns
    /\ st' = InitState
    /\ \E restart \in BOOLEAN :
          /\ procStart' = IF restart THEN now ELSE procStart
          /\ hist' = [NoHist EXCEPT !.fresh = restart, !.input = st']
    /\ pc' = should_continue("planning")
    /\ runs' = runs + 1
    /\ UNCHANGED <<envVars, routerResult, now, wallets, dbCursors, storeVars>>

AgentPlanner ==
    /\ pc = "planner"
    /\ st' = pw_planner_node(st, now)
    /\ hist' = [hist EXCEPT !.node = "planner"]
    /\ pc' = should_continue(st'.status)
    /\ UNCHANGED <<envVars, routerResult, now, procStart, wallets, dbCursors,
                   storeVars, runs>>

\* the nodes after the worker make no cursor call: the tick ends here
AgentWorker ==
    /\ pc = "worker"
    /\ LET r == pw_worker_node(st, scratch, dbCursors, now, procStart) IN
         /\ st' = r.st
         /\ scratch' = r.scratch
         /\ dbCursors' = r.db
    /\ hist' = [hist EXCEPT !.node = "worker"]
    /\ pc' = "idle"
    /\ UNCHANGED <<envVars, routerResult, now, procStart, wallets, events,
                   artifacts, runs>>

AgentNext ==
    \/ AgentRun
    \/ AgentPlanner
    \/ AgentWorker
    \/ Tick

SpecAgent == AgentInit /\ [][AgentNext]_vars

\* ------------------------------------------------------------------------
\* The graph LangGraphAgent wires (src/agent.py lines 326-428): every node
\* is the one of src/planner_worker.py, and every run starts from the
\* initial state that run builds
\* ------------------------------------------------------------------------
\* planner_worker.analyze_node: signals of the events of the last 24h; no
\* event is written to the store
pw_analyze_node(s, t) ==
    IF s.events = <<>>
    THEN [s EXCEPT !.signals = NoSignals, !.status = "completed"]
    ELSE LET cutoff == t - ANALYZE_WINDOW
             recent == SelectSeq(s.events, LAMBDA e : e.timestamp >= cutoff)
         IN  [s EXCEPT !.signals = [Signals(recent) EXCEPT
                                      !.pool_activity = <<0, 1>>],
                       !.status = "briefing"]

\* planner_worker.brief_node lines 338-345: max(signals.values()) ranges
\* over the three signals and over total_events_24h, a count
pw_LowActivity(sig) ==
    /\ sig.total < BRIEF_THRESHOLD_EVENTS
    /\ ~MaxGeneralSignalMet(sig)
    /\ ~AtLeastThreshold(sig.total, 1)

\* planner_worker.brief_node: the brief is a text in the returned state,
\* which memory_node saves
pw_brief_node(s, t) ==
    IF CooldownActive(t, s.last_brief_at)
    THEN [s EXCEPT !.reason = "cooldown", !.status = "memory"]
    ELSE IF pw_LowActivity(s.signals)
    THEN [s EXCEPT !.reason = "low_activity", !.status = "memory"]
    ELSE [s EXCEPT !.brief_emitted = TRUE, !.last_brief_at = t,
                   !.reason = "emitted", !.status = "memory"]

RunsWorker ==
    /\ pc = "worker"
    /\ LET r == pw_worker_node(st, scratch, dbCursors, now, procStart) IN
         /\ st' = r.st
         /\ scratch' = r.scratch
         /\ dbCursors' = r.db
         /\ pc' = should_continue(r.st.status)
    /\ hist' = [hist EXCEPT !.node = "worker"]
    /\ UNCHANGED <<envVars, routerResult, now, procStart, wallets, events,
                   artifacts, runs>>

RunsAnalyze ==
    /\ pc = "analyze"
    /\ st' = pw_analyze_node(st, now)
    /\ pc' = should_continue(st'.status)
    /\ hist' = [hist EXCEPT !.node = "analyze"]
    /\ UNCHANGED <<envVars, routerResult, now, procStart, wallets, dbCursors,
                   storeVars, runs>>

RunsBrief ==
    /\ pc = "brief"
    /\ st' = pw_brief_node(st, now)
    /\ pc' = should_continue(st'.status)
    /\ hist' = [hist EXCEPT !.node = "brief"]
    /\ UNCHANGED <<envVars, routerResult, now, procStart, wallets, dbCursors,
                   storeVars, runs>>

RunsNext ==
    \/ AgentRun
    \/ AgentPlanner
    \/ RunsWorker
    \/ RunsAnalyze
    \/ RunsBrief
    \/ Memory
    \/ Tick

SpecRuns == AgentInit /\ [][RunsNext]_vars

\* ------------------------------------------------------------------------
\* Ticks that keep running: two tracked wallets, the budget under the cap,
\* no provider that throws, one hour between two ticks.  The ticks never
\* end, so the clock is kept where it is and an hour that passes moves
\* every cursor an hour into the past instead; ages beyond the staleness
\* threshold of the cursor are not told apart.
\* ------------------------------------------------------------------------
MaxLiveRuns == 3
\* the staleness threshold of the cursor called name
StaleAfter(name) ==
    IF name = "lp" THEN CURSOR_STALE_LP
    ELSE IF name = "explore_metrics" THEN CURSOR_STALE_EXPLORE
    ELSE CURSOR_STALE_WALLET
\* an absent cursor and the seed value 0 stay what they are
Older(k, v) ==
    IF v = NoTs \/ v = 0 THEN v
    ELSE IF now - v > StaleAfter(k) THEN v
    ELSE v - 1
LiveWallets == <<"A", "B">>

LiveInit ==
    /\ envKeys = {"covalent"} /\ envSource = "covalent" /\ envThrows = {}
    /\ routerResult = NoResult
    /\ client = NoClient
    /\ now = StartTime
    /\ tz = 0
    /\ procStart = StartTime
    /\ wallets = LiveWallets
    /\ dbCursors = [n \in CursorNames |-> NoTs]
    /\ scratch = {}
    /\ events = {}
    /\ artifacts = {}
    /\ st = InitState
    /\ pc = "ready"
    /\ runs = 0
    /\ hist = NoHist

\* the caller starts the next tick with an empty run state or with the
\* cursors of the state the tick before returned
LiveRun ==
    /\ pc = "ready"
    /\ \E restart \in BOOLEAN, lb \in LastBriefValues(now) :
          /\ st' = [InitState EXCEPT
                      !.cursors = IF restart THEN <<>> ELSE st.cursors,
                      !.spent_today = BUDGET_DAILY - 1,
                      !.last_brief_at = lb]
          /\ procStart' = IF restart THEN now ELSE procStart
          /\ hist' = [NoHist EXCEPT !.fresh = restart, !.input = st']
    /\ pc' = should_continue("planning")
    \* ticks beyond MaxLiveRuns are not counted
    /\ runs' = IF runs < MaxLiveRuns THEN runs + 1 ELSE runs
    /\ UNCHANGED <<envVars, routerResult, now, wallets, dbCursors, storeVars>>

\* a wallet fetch succeeds with the provider's events or, for a wallet with
\* no activity since the cursor, with an empty list (worker.py line 63:
\* result.get("events", []))
LiveWorker ==
    /\ pc = "worker"
    /\ \E quiet \in BOOLEAN :
         LET r == worker_node(st, scratch, dbCursors, now, procStart,
                              envKeys, envSource, envThrows)
             s == IF quiet /\ st.selected_action = "wallet_recon"
                  THEN [r.st EXCEPT !.events = <<>>]
                  ELSE r.st
         IN  /\ st' = s
             /\ scratch' = r.scratch
             /\ dbCursors' = r.db
             /\ routerResult' = r.router
             /\ pc' = should_continue(s.status)
    /\ hist' = [hist EXCEPT !.node = "worker",
                            !.failed = (st'.status = "failed")]
    /\ UNCHANGED <<envVars, now, procStart, wallets, events, artifacts, runs>>

LiveTick ==
    /\ pc = "idle"
    /\ dbCursors' = [n \in CursorNames |-> Older(n, dbCursors[n])]
    /\ st' = [st EXCEPT !.cursors =
                 [i \in 1..Len(@) |->
                     [k |-> @[i].k, v |-> Older(@[i].k, @[i].v)]]]
    \* the rows of the store, which no planner reads, are not kept from one
    \* tick to the next
    /\ scratch' = {} /\ events' = {} /\ artifacts' = {}
    /\ pc' = "ready"
    /\ UNCHANGED <<envVars, routerResult, now, procStart, wallets, runs, hist>>

LiveNext ==
    \/ LiveRun
    \/ Planner
    \/ LiveWorker
    \/ Analyze
    \/ Brief
    \/ Memory
    \/ LiveTick

\* a tick that can run does run
SpecLive == LiveInit /\ [][LiveNext]_vars /\ WF_vars(LiveNext)

\* ------------------------------------------------------------------------
\* brief_node called twice on the same state
\* (src/tests/test_llm_brief.py test_idempotency)
\* ------------------------------------------------------------------------
\* the caller passes its own state again, at once or an hour later
BriefAgain ==
    /\ pc # "brief"
    /\ runs < MaxRuns
    /\ \E d \in CycleSteps : now' = now + d
    /\ st' = hist.input
    /\ pc' = "brief"
    /\ runs' = runs + 1
    /\ hist' = [hist EXCEPT !.node = "again"]
    /\ UNCHANGED <<envVars, routerResult, procStart, wallets, dbCursors,
                   storeVars>>

BriefTwiceNext ==
    \/ Brief
    \/ BriefAgain

SpecBriefTwice == GateInit /\ [][BriefTwiceNext]_vars

\* ------------------------------------------------------------------------
\* The Analyzer on a fetched batch, normalized twice (src/nodes/analyze.py)
\* ------------------------------------------------------------------------
BatchTxHashes == {"0x1234", "0xabcd", None}
BatchLogIndexes == {0, 1}
MaxBatch == 2
\* events of the last hours, as MOCK_EVENTS has them: several events of
\* one transaction differ in logIndex; an event without "txHash" is
\* what the wallet providers return
BatchEvents ==
    {RawEvent(tx, StartTime - 2, "swap", None, "WETH/USDC",
              IF tx = None THEN None ELSE i) :
        tx \in BatchTxHashes, i \in BatchLogIndexes}
RECURSIVE SeqsUpTo(_, _)
SeqsUpTo(S, n) ==
    IF n = 0 THEN {<<>>}
    ELSE LET shorter == SeqsUpTo(S, n - 1) IN
         shorter \cup {Append(q, x) : q \in shorter, x \in S}
\* a batch holds each fetched event once
Batches ==
    {b \in SeqsUpTo(BatchEvents, MaxBatch) :
        b # <<>> /\ \A i, j \in 1..Len(b) : i # j => b[i] # b[j]}

AnalyzeInit ==
    /\ envKeys = {} /\ envSource = "" /\ envThrows = {}
    /\ tz = 0
    /\ routerResult = NoResult
    /\ client = NoClient
    /\ now = StartTime
    /\ procStart = StartTime
    /\ wallets = <<>>
    /\ dbCursors = [n \in CursorNames |-> NoTs]
    /\ scratch = {}
    /\ events = {}
    /\ artifacts = {}
    /\ \E b \in Batches :
          st = [InitState EXCEPT !.events = b,
                                 !.source_ids = {RawId("batch", "", 0)},
                                 !.status = "analyzing"]
    /\ pc = "analyze"
    /\ runs = 1
    /\ hist = [NoHist EXCEPT !.input = st]

\* the same raw payload is handed to the Analyzer again, at once or later
AnalyzeAgain ==
    /\ pc # "analyze"
    /\ runs < MaxRuns
    /\ \E d \in CycleSteps : now' = now + d
    /\ st' = hist.input
    /\ pc' = "analyze"
    /\ runs' = runs + 1
    /\ hist' = [hist EXCEPT !.node = "again"]
    /\ UNCHANGED <<envVars, routerResult, procStart, wallets, dbCursors,
                   storeVars>>

AnalyzeNext ==
    \/ Analyze
    \/ AnalyzeAgain

SpecAnalyze == AnalyzeInit /\ [][AnalyzeNext]_vars

\* ------------------------------------------------------------------------
\* The LLM input budget (src/nodes/brief_utils.py)
\* ------------------------------------------------------------------------
\* lengths of json.dumps output, in characters: an event of the test
\* fixtures is 136 characters plus the digits of its usd_value, list
\* items are joined by ", " inside "[" "]"; MOCK_SIGNALS is 135 characters
\* and the reduction_info entry adds 124
EVENT_BASE_CHARS == 136
SIGNALS_CHARS == 135
REDUCTION_INFO_CHARS == 124
PROMPT_TOKENS == 100
CHARS_PER_TOKEN == 3
\* the length below which the last loop of reduce_events stops popping
MIN_REDUCED == 10
OUTLIER_Z == 2

RECURSIVE Digits(_)
Digits(n) == IF n < 10 THEN 1 ELSE 1 + Digits(n \div 10)

NormEvent(id, wallet, pool, usd) ==
    [event_id |-> id, wallet |-> wallet, pool |-> pool, usd_value |-> usd]

EventChars(e) == EVENT_BASE_CHARS + Digits(e.usd_value)

RECURSIVE SumChars(_, _)
SumChars(es, i) ==
    IF i > Len(es) THEN 0 ELSE EventChars(es[i]) + SumChars(es, i + 1)

\* len(json.dumps([...]))
EventsChars(es) ==
    IF es = <<>> THEN 2 ELSE 2 + SumChars(es, 1) + 2 * (Len(es) - 1)

estimate_tokens(es, rollups_chars) ==
    (EventsChars(es) + rollups_chars) \div CHARS_PER_TOKEN + PROMPT_TOKENS

get_usd_value(e) == e.usd_value

RECURSIVE SumUsd(_, _)
SumUsd(es, i) ==
    IF i > Len(es) THEN 0 ELSE get_usd_value(es[i]) + SumUsd(es, i + 1)
RECURSIVE SumUsdSq(_, _)
SumUsdSq(es, i) ==
    IF i > Len(es) THEN 0
    ELSE get_usd_value(es[i]) * get_usd_value(es[i]) + SumUsdSq(es, i + 1)

\* |value - mean| / std > 2 with std > 0, both sides squared and
\* multiplied by n^2
is_outlier(es, value) ==
    LET n  == Len(es)
        s1 == SumUsd(es, 1)
        s2 == SumUsdSq(es, 1)
        nv == n * s2 - s1 * s1
        d  == n * value - s1
    IN  /\ n >= 2
        /\ nv > 0
        /\ d * d > OUTLIER_Z * OUTLIER_Z * nv

\* the wallets and pools of the events: the keys of first_events and
\* last_events
GroupKeys(es) ==
    {es[i].wallet : i \in {j \in 1..Len(es) : es[j].wallet # None}} \cup
    {es[i].pool : i \in {j \in 1..Len(es) : es[j].pool # None}}
InGroup(e, k) == e.wallet = k \/ e.pool = k
FirstOf(es, k) ==
    CHOOSE i \in 1..Len(es) :
        InGroup(es[i], k) /\ \A j \in 1..(i - 1) : ~InGroup(es[j], k)
LastOf(es, k) ==
    CHOOSE i \in 1..Len(es) :
        InGroup(es[i], k) /\ \A j \in (i + 1)..Len(es) : ~InGroup(es[j], k)

\* keep_events: the ids of the outliers and of the first and last event
\* of each wallet and pool
KeepEvents(es) ==
    {es[i].event_id :
        i \in {j \in 1..Len(es) : is_outlier(es, get_usd_value(es[j]))}} \cup
    {es[FirstOf(es, k)].event_id : k \in GroupKeys(es)} \cup
    {es[LastOf(es, k)].event_id : k \in GroupKeys(es)}

\* sorted(events, key=get_usd_value, reverse=True): equal values keep
\* their order
RECURSIVE SortedByUsd(_, _)
SortedByUsd(es, left) ==
    IF left = {} THEN <<>>
    ELSE LET i == CHOOSE i \in left : \A j \in left :
                     \/ get_usd_value(es[j]) < get_usd_value(es[i])
                     \/ get_usd_value(es[j]) = get_usd_value(es[i]) /\ i <= j
         IN  <<es[i]>> \o SortedByUsd(es, left \ {i})

\* lines 122-127: events outside keep_events are appended until one puts
\* the estimate over the cap
RECURSIVE AddUntilCap(_, _, _, _, _)
AddUntilCap(result, others, i, rollups_chars, token_cap) ==
    IF i > Len(others) THEN result
    ELSE LET longer == Append(result, others[i]) IN
         IF estimate_tokens(longer, rollups_chars) > token_cap
         THEN result
         ELSE AddUntilCap(longer, others, i + 1, rollups_chars, token_cap)

\* lines 130-131
RECURSIVE PopWhileOver(_, _, _)
PopWhileOver(result, rollups_chars, token_cap) ==
    IF estimate_tokens(result, rollups_chars) > token_cap
       /\ Len(result) > MIN_REDUCED
    THEN PopWhileOver(SubSeq(result, 1, Len(result) - 1), rollups_chars,
                      token_cap)
    ELSE result

reduce_events(es, rollups_chars, token_cap) ==
    IF es = <<>>
    THEN [events |-> <<>>, rollups_chars |-> rollups_chars, reduced |-> FALSE]
    ELSE IF estimate_tokens(es, rollups_chars) <= token_cap
    THEN [events |-> es, rollups_chars |-> rollups_chars, reduced |-> FALSE]
    ELSE
    LET keep     == KeepEvents(es)
        sorted   == SortedByUsd(es, 1..Len(es))
        kept     == SelectSeq(sorted, LAMBDA e : e.event_id \in keep)
        others   == SelectSeq(sorted, LAMBDA e : e.event_id \notin keep)
        added    == AddUntilCap(kept, others, 1, rollups_chars, token_cap)
    IN  [events |-> PopWhileOver(added, rollups_chars, token_cap),
         rollups_chars |-> rollups_chars + REDUCTION_INFO_CHARS,
         reduced |-> TRUE]

MaxEvents == 3
MaxCopies == 12
TokenCaps == {150, 200, 250, 300, 600, 650, 1000}
InputPolicies == {"full", "budgeted"}
ReduceUniverse ==
    { NormEvent("tx1:0", "0x123", "pool123", 10),
      NormEvent("tx2:0", "0x123", "pool123", 20),
      NormEvent("tx3:0", "0x123", "pool123", 1000),
      NormEvent("tx4:0", "0x456", "pool456", 0) }
\* [MOCK_EVENT] * n
Copies(n) == [i \in 1..n |-> NormEvent("tx123:0", "0x123", "pool123", 1000)]
ReduceInputs ==
    SeqsUpTo(ReduceUniverse, MaxEvents) \cup
    {Copies(n) : n \in (MaxEvents + 1)..MaxCopies}

NoReduction == [events |-> <<>>, rollups_chars |-> 0, reduced |-> FALSE]

ReduceInit ==
    /\ envKeys = {} /\ envSource = "" /\ envThrows = {}
    /\ tz = 0
    /\ routerResult = NoResult
    /\ client = NoClient
    /\ now = StartTime
    /\ procStart = StartTime
    /\ wallets = <<>>
    /\ dbCursors = [n \in CursorNames |-> NoTs]
    /\ scratch = {}
    /\ events = {}
    /\ artifacts = {}
    /\ \E es \in ReduceInputs, cap \in TokenCaps :
          st = [events |-> es, rollups_chars |-> SIGNALS_CHARS,
                token_cap |-> cap, result |-> NoReduction]
    /\ pc = "llm_input"
    /\ runs = 0
    /\ hist = NoHist

reduceFrame == <<envVars, routerResult, now, procStart, wallets, dbCursors,
                 storeVars, runs>>

\* reduce_events called on the events (src/tests/test_llm_brief.py)
ReduceEvents ==
    /\ pc = "llm_input"
    /\ st' = [st EXCEPT !.result =
                 reduce_events(st.events, st.rollups_chars, st.token_cap)]
    /\ pc' = "reduced"
    /\ hist' = [hist EXCEPT !.node = "reduce_events"]
    /\ UNCHANGED reduceFrame

\* brief_node lines 161-164: the events go to the LLM as they are unless
\* the policy is "budgeted" and their estimate is over the cap
BriefLlmInput ==
    /\ pc = "llm_input"
    /\ \E policy \in InputPolicies :
          st' = [st EXCEPT !.result =
                   IF policy = "budgeted"
                      /\ estimate_tokens(st.events, st.rollups_chars) > st.token_cap
                   THEN reduce_events(st.events, st.rollups_chars, st.token_cap)
                   ELSE [events |-> st.events,
                         rollups_chars |-> st.rollups_chars,
                         reduced |-> FALSE]]
    /\ pc' = "sent"
    /\ hist' = [hist EXCEPT !.node = "brief"]
    /\ UNCHANGED reduceFrame

ReduceNext ==
    \/ ReduceEvents
    \/ BriefLlmInput

SpecReduce == ReduceInit /\ [][ReduceNext]_vars

\* ------------------------------------------------------------------------
\* Daily budget (src/agent.py): the run state's spent_today and last_date
\* ------------------------------------------------------------------------
HoursPerDay == 24
UtcOffsets == {0 - 8, 0, 9}
LlmCosts == {2, 3}
MaxMessages == 3

\* datetime.date.today(): the date of the host's local clock
today(t, off) == (t + off) \div HoursPerDay
\* the date of the same instant in UTC
UtcDate(t) == t \div HoursPerDay

_reset_spent_if_new_day(s, t, off) ==
    IF s.last_date # today(t, off)
    THEN [s EXCEPT !.spent_today = 0, !.last_date = today(t, off)]
    ELSE s

budget_node(s, t, off) ==
    LET r == _reset_spent_if_new_day(s, t, off) IN
    IF r.spent_today >= BUDGET_DAILY
    THEN [r EXCEPT !.status = "capped",
                   !.messages = Append(@, "Budget cap hit")]
    ELSE [r EXCEPT !.status = "planning"]

\* legacy_planner_node when it makes a new plan: the LLM call's estimated
\* cost is added to spent_today
legacy_planner_node(s, t, off, cost) ==
    LET r == _reset_spent_if_new_day(s, t, off) IN
    [r EXCEPT !.spent_today = @ + cost,
              !.messages = Append(@, "AI(plan)"),
              !.status = "working"]

\* the initial state LangGraphAgent.run hands to the graph
initial_state(t, off) == [InitState EXCEPT !.last_date = today(t, off)]

BudgetInit ==
    /\ envKeys = {} /\ envSource = "" /\ envThrows = {}
    /\ tz \in UtcOffsets
    /\ routerResult = NoResult
    /\ client = NoClient
    /\ now = StartTime
    /\ procStart = StartTime
    /\ wallets = <<>>
    /\ dbCursors = [n \in CursorNames |-> NoTs]
    /\ scratch = {}
    /\ events = {}
    /\ artifacts = {}
    /\ st = InitState
    /\ pc = "ready"
    /\ runs = 0
    /\ hist = NoHist

budgetFrame == <<envKeys, envSource, envThrows, tz, routerResult, client,
                 procStart, wallets, dbCursors, storeVars, pc, runs>>

\* LangGraphAgent.run: the graph is entered at budget_node with the
\* initial state; no node after it writes spent_today or last_date
BudgetRun ==
    /\ st' = budget_node(initial_state(now, tz), now, tz)
    /\ hist' = [hist EXCEPT !.node = "run"]
    /\ UNCHANGED <<budgetFrame, now>>

\* budget_node on the state it is handed
BudgetCheck ==
    /\ Len(st.messages) < MaxMessages
    /\ st' = budget_node(st, now, tz)
    /\ hist' = [hist EXCEPT !.node = "budget"]
    /\ UNCHANGED <<budgetFrame, now>>

LegacyPlanner ==
    /\ Len(st.messages) < MaxMessages
    /\ st.spent_today < BUDGET_DAILY
    /\ \E cost \in LlmCosts :
          st' = legacy_planner_node(st, now, tz, cost)
    /\ hist' = [hist EXCEPT !.node = "legacy_planner"]
    /\ UNCHANGED <<budgetFrame, now>>

BudgetClock ==
    /\ \E d \in ClockSteps :
         /\ now + d <= StartTime + MaxElapsed
         /\ now' = now + d
    /\ UNCHANGED <<budgetFrame, st, hist>>

BudgetNext ==
    \/ BudgetRun
    \/ BudgetCheck
    \/ LegacyPlanner
    \/ BudgetClock

SpecBudget == BudgetInit /\ [][BudgetNext]_vars

\* ------------------------------------------------------------------------
\* Properties
\* ------------------------------------------------------------------------
IndexOf(sq, x) == CHOOSE i \in 1..Len(sq) : sq[i] = x
\* first provider of the chain, from position i on, whose fetch succeeds
FirstWorking(chain, i, throwing) ==
    chain[CHOOSE j \in i..Len(chain) :
             /\ chain[j] \notin throwing
             /\ \A k \in i..(j - 1) : chain[k] \in throwing]

\* C1: when the selected provider's fetch throws and a configured live
\* provider further down the fallback chain succeeds, the call does not
\* raise and the result is tagged with that provider's name.
C1_FallbackServesNextProvider ==
    routerResult # NoResult =>
        LET avail == _detect_available_providers(envKeys)
            chain == _build_fallback_chain(avail)
            sel   == get_selected_provider(avail, envSource)
            exp   == FirstWorking(chain, IndexOf(chain, sel), envThrows)
        IN  (sel \in envThrows /\ exp # "mock") =>
                (~routerResult.raised /\ routerResult.tag = exp)

\* the effective cursor of a key before a planner tick: the run state's
\* value when it has one, else the stored one
EffCursor(k) == IF DictHas(st.cursors, k) THEN DictGet(st.cursors, k, NoTs)
                ELSE dbCursors[k]

\* C2: a planner tick with spent_today >= BUDGET_DAILY (equality included)
\* returns capped with no action selected and touches no cursor, in the run
\* state or in the store.
C2_CappedBeforeCursors ==
    [][(pc = "planner" /\ st.spent_today >= BUDGET_DAILY) =>
          /\ st'.status = "capped"
          /\ st'.selected_action = None
          /\ st'.target_wallet = None
          /\ st'.cursors = st.cursors
          /\ dbCursors' = dbCursors
          /\ pc' = "idle"]_vars

C2_Witness ==
    /\ hist.node = "planner"
    /\ st.status = "capped"
    /\ st.spent_today = BUDGET_DAILY
    /\ \E w \in SeqToSet(wallets) :
          /\ dbCursors[WalletKey(w)] # NoTs
          /\ now - dbCursors[WalletKey(w)] > CURSOR_STALE_WALLET

C6_EventProvenance ==
    \A e \in events : get_raw_response(scratch, e.source_id) # {}

\* C8: a planner tick under the cap seeds every tracked wallet that has no
\* cursor in the run state or in the store: the store and the run state get
\* cursor 0 for it in that tick.
C8_NewWalletSeeded ==
    [][(pc = "planner" /\ st.spent_today < BUDGET_DAILY) =>
          \A w \in SeqToSet(wallets) :
             (~DictHas(st.cursors, WalletKey(w)) /\ dbCursors[WalletKey(w)] = NoTs)
             => /\ dbCursors'[WalletKey(w)] = 0
                /\ DictGet(st'.cursors, WalletKey(w), NoTs) = 0]_vars

\* C9: a planner tick never seeds a wallet whose cursor exists in the store
\* and leaves every existing stored cursor as it is, so an advanced cursor
\* is never reset to 0.
C9_SeedOnce ==
    [][pc = "planner" =>
          \A k \in CursorNames :
             dbCursors[k] # NoTs =>
                (k \notin hist'.seeded /\ dbCursors'[k] = dbCursors[k])]_vars

\* a tick that started with an empty run state found an advanced cursor
C9_Witness ==
    /\ hist.node = "planner"
    /\ hist.fresh
    /\ st.status # "capped"
    /\ \E w \in SeqToSet(wallets) : dbCursors[WalletKey(w)] > 0

\* C10: the brief node skips with reason "cooldown" exactly when
\* now - last_brief_at < BRIEF_COOLDOWN, whatever the signals are; at 6h
\* or more the cooldown condition passes.
C10_Cooldown ==
    [][pc = "brief" =>
          /\ (now - st.last_brief_at < BRIEF_COOLDOWN) <=> (st'.reason = "cooldown")
          /\ (st'.reason = "cooldown") =>
                (st'.status = "memory" /\ artifacts' = artifacts)]_vars

\* cooldown skip although the activity thresholds are met
C10_Witness ==
    /\ hist.node = "brief"
    /\ st.reason = "cooldown"
    /\ now - st.last_brief_at = BRIEF_COOLDOWN - 1
    /\ ~LowActivity(st.signals)

RowsWithKey(op, key) ==
    IF op = "save_raw_response" THEN {r \in scratch : r.id = key}
    ELSE IF op = "normalize_event" THEN {r \in events : r.id = key}
    ELSE {r \in artifacts : r.id = key}

\* C4: a save_raw_response, normalize_event or persist_brief call that
\* repeats the call before it (same key, same content) leaves exactly one
\* row for the key and the store contents the first call left.
C4_IdempotentUpsert ==
    hist.repeat =>
        /\ Cardinality(RowsWithKey(hist.call.op, hist.call.key)) = 1
        /\ VisibleStore = hist.prev

\* the repeated call was made at a later time than the first
C4_Witness ==
    /\ hist.repeat
    /\ hist.call.op = "normalize_event"
    /\ \E r \in events : r.id = hist.call.key /\ r.created_at > StartTime

\* C5: the second pass of the cycle on the same input normalizes as many
\* events as the first, and leaves Layer 2 with the row count the first
\* pass left, no event id appearing on two rows.
C5_TwiceSameCounts ==
    (runs = 2 /\ CycleEnded) =>
        /\ st.normalized = hist.first.n
        /\ Cardinality(events) = hist.first.l2
        /\ \A e1, e2 \in events : e1.id = e2.id => e1 = e2

\* C7: every id in a persisted artifact's source_ids is the id of an
\* existing Layer 1 row.
C7_ArtifactProvenance ==
    \A a \in artifacts :
        \A sid \in a.source_ids : get_raw_response(scratch, sid) # {}

\* the gate condition of the specification, on the state the brief node reads
GateInputsPass ==
    \/ st.signals.total >= BRIEF_THRESHOLD_EVENTS
    \/ \E x \in {st.signals.volume, st.signals.activity,
                 st.signals.concentration, st.signals.pool_activity} :
          x[1] * 10 >= 6 * x[2]
CooldownPassed == now - st.last_brief_at >= BRIEF_COOLDOWN

\* C11: with the cooldown passed, the brief node emits a brief exactly when
\* total events >= 5 or the largest general signal >= 0.6 or the pool
\* activity score >= 0.6, and otherwise skips with reason "low_activity".
C11_GateThresholds ==
    [][(pc = "brief" /\ CooldownPassed) =>
          /\ GateInputsPass <=> (st'.brief_emitted /\ artifacts' # artifacts)
          /\ ~GateInputsPass => st'.reason = "low_activity"]_vars

\* C12: a brief node step that skips (reason cooldown or low_activity)
\* writes no artifact and leaves last_brief_at as it was.
C12_SkipFrame ==
    [][(pc = "brief" /\ st'.reason \in {"cooldown", "low_activity"}) =>
          /\ artifacts' = artifacts
          /\ st'.last_brief_at = st.last_brief_at
          /\ ~st'.brief_emitted
          /\ st'.status = "memory"]_vars

\* a low-activity skip right at the end of the cooldown
C12_Witness ==
    /\ hist.node = "brief"
    /\ st.reason = "low_activity"
    /\ st.last_brief_at = now - BRIEF_COOLDOWN
    /\ st.signals.total = BRIEF_THRESHOLD_EVENTS - 1
    /\ artifacts = {}

\* C13: a brief node step whose gate passes persists exactly one artifact,
\* with the source ids of the run, sets last_brief_at to the emission time
\* and moves on to the memory stage.
C13_EmitPersistsOne ==
    [][(pc = "brief" /\ CooldownPassed /\ GateInputsPass) =>
          /\ Cardinality(artifacts' \ artifacts) = 1
          /\ \A a \in artifacts' \ artifacts : a.source_ids = st.source_ids
          /\ st'.last_brief_at = now
          /\ st'.status = "memory"]_vars

\* C14: when the gate passes and the LLM call raises or returns text that
\* is not JSON, the brief node does not fail and persists an artifact
\* whose LLM fields are null.
C14_LlmFailureDegrades ==
    [][(pc = "brief" /\ CooldownPassed /\ GateInputsPass
        /\ hist'.llm \in {"raises", "non_json"}) =>
          /\ st'.status = "memory"
          /\ \E a \in artifacts' \ artifacts : a.llm = None]_vars

\* C15: a run in which a stage hit an exception ends with status failed
\* and an error message appended to the run's message log.
C15_FailureIsReported ==
    hist.failed =>
        /\ pc = "idle"
        /\ st.status = "failed"
        /\ Len(st.messages) > Len(hist.input.messages)

\* the stage that may follow each stage of a run
NextStage(stage) ==
    CASE stage = "planner" -> "worker"
      [] stage = "worker"  -> "analyze"
      [] stage = "analyze" -> "brief"
      [] stage = "brief"   -> "memory"
      [] OTHER             -> "idle"
Stages == {"planner", "worker", "analyze", "brief", "memory"}

\* C16: the stages of a run follow one another in the order planner,
\* worker, analyzer, brief, cursor commit (or the run ends), and the stored
\* cursors are written by no stage between the planner and the final
\* cursor commit.
C16_StagesInOrder ==
    [][/\ pc \in Stages => pc' \in {NextStage(pc), "idle"}
       /\ pc \in {"worker", "analyze", "brief"} => dbCursors' = dbCursors]_vars

\* the attempts the fallback walk makes: the chain from the selected
\* provider up to the first provider whose fetch succeeds
ExpectedAttempts ==
    LET avail == _detect_available_providers(envKeys)
        chain == SelectSeq(_build_fallback_chain(avail), LAMBDA p : avail[p])
        from  == IndexOf(chain, get_selected_provider(avail, envSource))
        to    == CHOOSE j \in from..Len(chain) :
                    /\ chain[j] \notin envThrows
                    /\ \A k \in from..(j - 1) : chain[k] \in envThrows
    IN  SubSeq(chain, from, to)

\* C17: a fetch attempts the providers of the fallback chain in order from
\* the selected one, each once, moving on only after a failure, stopping at
\* the first success, the mock provider being the last resort.
C17_AttemptsInChainOrder ==
    routerResult # NoResult => routerResult.attempts = ExpectedAttempts

\* C18: the provider tag of a fetch result names the provider whose fetch
\* produced the result, the mock provider included.
C18_TagNamesServer ==
    routerResult.served # None => routerResult.tag = routerResult.served

\* ------------------------------------------------------------------------
\* Provider client retries
\* ------------------------------------------------------------------------
AuthOrBilling(resp) == resp.status \in {401, 402}
LastRequest(c) == c.requests[Len(c.requests)]

\* C19: a request answered with HTTP 401 or 402 is the last request of the
\* call (no further attempt is made), and the call then reaches the router
\* as a raised failure so that it falls through to the next provider
C19_NoRetryOnAuthOrBilling ==
    /\ \A i \in 1..Len(client.requests) :
          AuthOrBilling(client.requests[i]) => i = Len(client.requests)
    /\ (client.pc = "done" /\ client.requests # <<>>
          /\ AuthOrBilling(LastRequest(client)))
       => client.router = "raised"

\* at most MAX_RETRIES requests are made per call
AtMostMaxRetries == Len(client.requests) <= MAX_RETRIES

\* a positive sleep separates every two consecutive requests
WaitsBetweenAttempts ==
    \A i \in 1..(Len(client.requests) - 1) :
        \E j \in 1..Len(client.waits) :
            client.waits[j].after = i /\ client.waits[j].secs > 0

\* after a 429 with a numeric Retry-After the client sleeps that long, up
\* to MAX_DELAY, before the next request
RetryAfterHonored ==
    \A i \in 1..Len(client.requests) :
        LET r == client.requests[i] IN
        (r.status = 429 /\ r.header.kind = "seconds")
        => \E j \in 1..Len(client.waits) :
              /\ client.waits[j].after = i
              /\ client.waits[j].kind = "rate_limit"
              /\ client.waits[j].secs = Min(r.header.secs, MAX_DELAY)

\* a call whose last attempt failed raises, and the router receives the
\* failure
FailureRaisedToRouter ==
    (client.pc = "done" /\ client.raised # None) => client.router = "raised"

\* the call that used up its attempts does raise
ExhaustedCallRaises ==
    (client.pc = "done" /\ Len(client.requests) = MAX_RETRIES
        /\ ResponseError(client.provider, LastRequest(client)) # None)
    => client.raised # None

\* C20: a client call makes at most 3 requests, sleeps between them (for the
\* Retry-After time after a 429), and after its last failed attempt, also
\* when every answer was 429, ends by raising the failure to the router
C20_BoundedRetriesThenRaise ==
    /\ AtMostMaxRetries
    /\ WaitsBetweenAttempts
    /\ RetryAfterHonored
    /\ ExhaustedCallRaises
    /\ FailureRaisedToRouter

\* every request of the call went unanswered
StuckCall(c) ==
    /\ c.requests # <<>>
    /\ \A i \in 1..Len(c.requests) : c.requests[i].status = NoResponse

\* the longest a call can take when no request is answered: MAX_RETRIES
\* request timeouts and the longest backoff before each attempt but the first
StuckCallBound(p) ==
    MAX_RETRIES * REQUEST_TIMEOUT[p]
    + Min(BASE_DELAY * 2^1 + 1, MAX_DELAY) + Min(BASE_DELAY * 2^2 + 1, MAX_DELAY)

\* a call that is never answered ends within the bound
StuckCallEnds ==
    StuckCall(client) =>
        /\ client.elapsed <= StuckCallBound(client.provider)
        /\ client.pc \in {"loop", "exhausted", "done"}
        /\ Len(client.requests) <= MAX_RETRIES

\* C21: a provider call that is never answered is given up after a bounded
\* time, and the router then serves the fetch from the next provider of the
\* fallback chain that works
C21_StuckCallAdvances ==
    /\ StuckCallEnds
    /\ (StuckCall(client) /\ routerResult # NoResult) =>
          LET avail == _detect_available_providers(envKeys)
              chain == _build_fallback_chain(avail)
              sel   == get_selected_provider(avail, envSource)
          IN  /\ ~routerResult.raised
              /\ routerResult.served =
                   FirstWorking(chain, IndexOf(chain, sel) + 1, envThrows)

\* ------------------------------------------------------------------------
\* Planner selection
\* ------------------------------------------------------------------------
\* positions in the tracked wallet list of the wallets whose cursor, in the
\* cursors cs the tick works with, is older than CURSOR_STALE_WALLET at t
StaleTracked(cs, ws, t) ==
    {i \in 1..Len(ws) :
        /\ DictHas(cs, WalletKey(ws[i]))
        /\ t - DictGet(cs, WalletKey(ws[i]), 0) > CURSOR_STALE_WALLET}

\* C22: a tick under the cap that finds several tracked wallets stale
\* returns wallet_recon with one target wallet, the first stale wallet in
\* the order of the tracked wallet list.
C22_FirstStaleInListOrder ==
    [][(pc = "planner" /\ st.spent_today < BUDGET_DAILY) =>
          LET stale == StaleTracked(st'.cursors, wallets, now) IN
          Cardinality(stale) >= 2 =>
             /\ st'.selected_action = "wallet_recon"
             /\ st'.target_wallet =
                  wallets[CHOOSE i \in stale : \A j \in stale : i <= j]]_vars

\* positions in the cursors cs of the wallet cursors older than
\* CURSOR_STALE_WALLET at t
StaleCursors(cs, t) ==
    {i \in 1..Len(cs) :
        IsWalletKey(cs[i].k) /\ t - cs[i].v > CURSOR_STALE_WALLET}

\* C22 as the planner has it: the target is the first stale wallet in the
\* insertion order of the cursors the tick works with, no other wallet is
\* selected, and a tick that starts with no cursors in the run state has
\* them in the order of the tracked wallet list.
C22_FirstStaleInCursorOrder ==
    [][(pc = "planner" /\ st.spent_today < BUDGET_DAILY) =>
          LET stale == StaleCursors(st'.cursors, now)
              listed == StaleTracked(st'.cursors, wallets, now)
          IN
          /\ stale # {} =>
               /\ st'.selected_action = "wallet_recon"
               /\ st'.target_wallet =
                    WalletOf(st'.cursors[CHOOSE i \in stale :
                                            \A j \in stale : i <= j].k)
          /\ (st.cursors = <<>> /\ listed # {}) =>
               st'.target_wallet =
                  wallets[CHOOSE i \in listed : \A j \in listed : i <= j]]_vars

\* a tick found two tracked wallets stale and took the one that comes
\* second in the tracked wallet list
C22_Witness ==
    /\ hist.node = "planner"
    /\ st.selected_action = "wallet_recon"
    /\ Cardinality(StaleTracked(st.cursors, wallets, now)) >= 2
    /\ st.target_wallet = wallets[2]

\* what steps 3 to 5 of the planner return for the cursors cs at time t
ExpectedAfterWallets(cs, t) ==
    IF t - DictGet(cs, "lp", 0) > CURSOR_STALE_LP THEN "lp_recon"
    ELSE IF t - DictGet(cs, "explore_metrics", 0) > CURSOR_STALE_EXPLORE
    THEN "explore_metrics"
    ELSE None

\* C23: a tick under the cap that finds no tracked wallet stale returns
\* lp_recon if now - cursor(lp) > 6h, otherwise explore_metrics if
\* now - cursor(explore_metrics) > 24h, otherwise no action (status
\* completed); a cursor exactly 6h or 24h old counts as fresh.
C23_LpThenExploreThenNone ==
    [][(/\ pc = "planner"
        /\ st.spent_today < BUDGET_DAILY
        /\ StaleTracked(st'.cursors, wallets, now) = {}) =>
          LET exp == ExpectedAfterWallets(st'.cursors, now) IN
          /\ st'.selected_action = exp
          /\ st'.target_wallet = None
          /\ st'.status = IF exp = None THEN "completed" ELSE "working"]_vars

\* the same with the condition the planner tests: no wallet cursor of the
\* cursors the tick works with is stale
PlannerThresholds ==
    [][(/\ pc = "planner"
        /\ st.spent_today < BUDGET_DAILY
        /\ StaleCursors(st'.cursors, now) = {}) =>
          LET exp == ExpectedAfterWallets(st'.cursors, now) IN
          /\ st'.selected_action = exp
          /\ st'.target_wallet = None
          /\ st'.status = IF exp = None THEN "completed" ELSE "working"]_vars

\* ------------------------------------------------------------------------
\* Persisted cursors
\* ------------------------------------------------------------------------
\* C24: no step of the scheduler, the seeding or the worker replaces a
\* stored cursor with a smaller value or removes it.
C24_CursorsMonotonic ==
    [][\A k \in CursorNames :
          dbCursors[k] # NoTs => dbCursors'[k] >= dbCursors[k]]_vars

\* the worker of a second run replaced the stored cursor of its wallet,
\* which the first run had written
C24_Witness ==
    /\ hist.node = "worker"
    /\ runs = 2
    /\ now > StartTime
    /\ st.selected_action = "wallet_recon"
    /\ st.status = "analyzing"
    /\ dbCursors[WalletKey(st.target_wallet)] = now

\* the cursor name of the resource a tick selected, and its threshold
SelectedCursor(s) ==
    IF s.selected_action = "wallet_recon" THEN WalletKey(s.target_wallet)
    ELSE IF s.selected_action = "lp_recon" THEN "lp"
    ELSE "explore_metrics"

\* C25: the stored cursor of a resource is the time of its last successful
\* fetch; a tick, whether its run state starts empty or not, selects a
\* resource only when it has no stored cursor or more than its staleness
\* threshold has passed since that fetch.
C25_NoRefetchWithinThreshold ==
    [][(pc = "planner" /\ st'.status = "working") =>
          LET name == SelectedCursor(st') IN
          \/ dbCursors[name] = NoTs
          \/ now - dbCursors[name] > StaleAfter(name)]_vars

\* the budget was spent up to the cap on the UTC date of the clock
CappedToday == /\ st.spent_today >= BUDGET_DAILY
               /\ st.last_date = UtcDate(now)

\* C26: spent_today goes back to zero only on a step where the UTC date of
\* the clock differs from last_date, and whenever a budget check finds
\* them different; within one date a budget that reached the cap is still
\* at the cap after any later run or check.
C26_ResetExactlyAtUtcRollover ==
    [][/\ (st'.spent_today < st.spent_today) => (UtcDate(now) # st.last_date)
       /\ (hist'.node \in {"run", "budget"} /\ st' # st
              /\ UtcDate(now) # st.last_date)
            => (st'.spent_today = 0 /\ st'.last_date = UtcDate(now))
       /\ (CappedToday /\ st' # st) => st'.status = "capped"]_vars

\* a run on the date the cap was reached starts with the spend forgotten
C26_RunForgetsSpend ==
    [][(hist'.node = "run" /\ CappedToday) => st'.spent_today >= BUDGET_DAILY]_vars

\* on a host whose clock is UTC, budget_node on a carried state resets
\* exactly at the date change
C26_CheckResetsAtRollover ==
    [][(hist'.node = "budget" /\ tz = 0 /\ st' # st) =>
          /\ (st'.spent_today < st.spent_today) => (UtcDate(now) # st.last_date)
          /\ (UtcDate(now) # st.last_date) => st'.spent_today = 0
          /\ CappedToday => st'.status = "capped"]_vars

\* the (transaction hash, log index) pairs of the events the Analyzer is
\* about to normalize
BatchKeys == {<<st.events[i].txHash, st.events[i].logIndex>> :
                 i \in 1..Len(st.events)}
StoredIds == {r.id : r \in events}

\* C27: after the Analyzer has normalized a batch, Layer 2 holds one row
\* per (transaction hash, log index) pair of the batch, on the first pass
\* and on every later pass over the same payload: events of one
\* transaction with different log indexes are distinct rows, and a second
\* pass reproduces the ids and adds no row.
C27_EventIdFromTxAndLogIndex ==
    [][pc = "analyze" =>
          /\ Cardinality(events') = Cardinality(BatchKeys)
          /\ (events # {} =>
                 {r.id : r \in events'} = StoredIds)]_vars

\* every event of the batch has a transaction hash of its own
OneEventPerTx ==
    /\ \A i \in 1..Len(st.events) : st.events[i].txHash # None
    /\ \A i, j \in 1..Len(st.events) :
          i # j => st.events[i].txHash # st.events[j].txHash

\* for such a batch the ids are distinct and a second pass adds no row
C27_DistinctTxDistinctRows ==
    [][(pc = "analyze" /\ OneEventPerTx) =>
          /\ Cardinality(events') = Len(st.events)
          /\ (events # {} => {r.id : r \in events'} = StoredIds)]_vars

\* C28: a row of the artifacts table stays as it was written: no store
\* call, no later brief emission changes or replaces it (the retention
\* cleanup alone removes rows).
C28_ArtifactsImmutable ==
    [][hist'.node # "cleanup" =>
          Visible(artifacts) \subseteq Visible(artifacts')]_vars

\* the pipeline's brief node never gets to write an artifact
C28_PipelineWritesNoArtifact == artifacts = {}

\* the state handed to brief_node passes the cooldown and the thresholds
GateOpen(s, t) ==
    /\ ~CooldownActive(t, s.last_brief_at)
    /\ ~LowActivity(s.signals)

\* C29: when brief generation has run a second time on the same state and
\* at the same time, and the gate is open for it, exactly one brief artifact
\* is stored.
C29_SecondBriefUpdates ==
    [][(pc = "brief" /\ hist.node = "again" /\ now = StartTime
          /\ GateOpen(st, now))
       => Cardinality(artifacts') = 1]_vars

\* a second pass never adds a second artifact
C29_AtMostOneArtifact ==
    [][(pc = "brief" /\ hist.node = "again" /\ now = StartTime)
       => Cardinality(artifacts') <= 1]_vars

\* C30: when reduce_events has run, the token estimate of the events it
\* returned is at most the token cap, and when the estimate of its input
\* was at most the cap it returned the events and the signals unchanged.
C30_ReducedWithinCap ==
    pc = "reduced" =>
        /\ estimate_tokens(st.result.events, st.rollups_chars) <= st.token_cap
        /\ (estimate_tokens(st.events, st.rollups_chars) <= st.token_cap =>
               /\ st.result.events = st.events
               /\ st.result.rollups_chars = st.rollups_chars)

\* an input under the cap comes back unchanged
C30_UnderCapUnchanged ==
    (pc = "reduced"
       /\ estimate_tokens(st.events, st.rollups_chars) <= st.token_cap) =>
        /\ st.result.events = st.events
        /\ st.result.rollups_chars = st.rollups_chars
        /\ ~st.result.reduced

\* a result over the cap holds kept events only, or no more than the
\* length the last loop stops at
C30_OverCapOnlyKept ==
    (pc = "reduced"
       /\ estimate_tokens(st.result.events, st.rollups_chars) > st.token_cap) =>
        \/ Len(st.result.events) <= MIN_REDUCED
        \/ \A i \in 1..Len(st.result.events) :
              st.result.events[i].event_id \in KeepEvents(st.events)

Abs(x) == IF x < 0 THEN 0 - x ELSE x
\* the largest absolute USD value among the events
MaxAbsUsd(es) ==
    SetMax({Abs(get_usd_value(es[i])) : i \in 1..Len(es)})
HasTopEvent(es, top) ==
    \E i \in 1..Len(es) : Abs(get_usd_value(es[i])) = top

\* C31: whatever the events and the cap, the set reduce_events returns
\* holds an event with the highest absolute USD value of the input.
C31_TopUsdRetained ==
    (pc = "reduced" /\ st.events # <<>>) =>
        HasTopEvent(st.result.events, MaxAbsUsd(st.events))

\* the top event is left out only when the kept events with it would be
\* over the cap, or when the last loop has cut the result
C31_TopDroppedOnlyOverCap ==
    (pc = "reduced" /\ st.events # <<>>
       /\ ~HasTopEvent(st.result.events, MaxAbsUsd(st.events))) =>
        \/ estimate_tokens(Append(st.result.events,
                                   CHOOSE e \in SeqToSet(st.events) :
                                      Abs(get_usd_value(e)) = MaxAbsUsd(st.events)),
                           st.rollups_chars) > st.token_cap
        \/ Len(st.events) > MIN_REDUCED

\* the priority order of the providers
PriorityOrder == <<"alchemy", "covalent", "bitquery", "mock">>
HasKey(p) == p = "mock" \/ p \in envKeys
FirstByPriority ==
    PriorityOrder[CHOOSE i \in 1..Len(PriorityOrder) :
                     /\ HasKey(PriorityOrder[i])
                     /\ \A j \in 1..(i - 1) : ~HasKey(PriorityOrder[j])]
OverrideAvailable ==
    \E p \in ProviderNames : lower(envSource) = p /\ HasKey(p)

\* C32: the provider a fetch starts with is the overridden provider when
\* the override names an available provider, and otherwise (no override,
\* an unknown or an unavailable provider) the first available provider in
\* the order alchemy, covalent, bitquery, mock; mock is always available.
C32_SelectedProvider ==
    routerResult # NoResult =>
        /\ Len(routerResult.attempts) >= 1
        /\ routerResult.attempts[1] =
              IF OverrideAvailable THEN lower(envSource) ELSE FirstByPriority
        /\ get_selected_provider(_detect_available_providers(envKeys),
                                 envSource) = routerResult.attempts[1]

\* a fetch has started with an overridden provider that is not the first
\* of the priority order
C32_Witness ==
    /\ routerResult # NoResult
    /\ OverrideAvailable
    /\ lower(envSource) # FirstByPriority
    /\ routerResult.attempts[1] = lower(envSource)

\* a fetch whose override names an unavailable provider has started with
\* the first available one
C32_WitnessFallback ==
    /\ routerResult # NoResult
    /\ envSource = "alchemy" /\ ~HasKey("alchemy") /\ HasKey("covalent")
    /\ routerResult.attempts[1] = "covalent"

\* the names the planner took from the cursor table on this tick
LoadedNames(before, after, db) ==
    {n \in CursorNames : /\ ~DictHas(before, n)
                         /\ DictHas(after, n)
                         /\ db[n] # NoTs}

\* C33: on a planner tick a cursor name the run state has keeps the value
\* of the run state, whatever the cursor table holds; a name the state
\* gains has the stored value, or is a wallet seeded at 0 when the table
\* has no row for it; and a tick that loaded a wallet cursor from the
\* table seeds nothing.
C33_StateCursorsFirst ==
    [][pc = "planner" =>
          /\ \A n \in CursorNames :
                /\ DictHas(st.cursors, n) =>
                      DictGet(st'.cursors, n, NoTs) = DictGet(st.cursors, n, NoTs)
                /\ (~DictHas(st.cursors, n) /\ DictHas(st'.cursors, n)) =>
                      IF dbCursors[n] # NoTs
                      THEN DictGet(st'.cursors, n, NoTs) = dbCursors[n]
                      ELSE n \in hist'.seeded /\ DictGet(st'.cursors, n, NoTs) = 0
          /\ (\E n \in LoadedNames(st.cursors, st'.cursors, dbCursors) :
                 IsWalletKey(n)) => hist'.seeded = {}]_vars

\* a planner tick has kept a state cursor whose stored value differs, and
\* has loaded another one from the table without seeding
C33_Witness ==
    /\ hist.node = "planner"
    /\ hist.seeded = {}
    /\ \E n \in CursorNames :
          /\ DictHas(hist.input.cursors, n)
          /\ dbCursors[n] # NoTs
          /\ dbCursors[n] # DictGet(hist.input.cursors, n, NoTs)
          /\ DictGet(st.cursors, n, NoTs) = DictGet(hist.input.cursors, n, NoTs)
    /\ LoadedNames(hist.input.cursors, st.cursors, dbCursors) # {}

\* the provider call of this fetch failed and no other provider served
FetchFailed(result) ==
    /\ client.raised # None
    /\ result.served \in {None, client.provider}

\* C34: a worker step changes the cursor table only together with saving
\* the raw response of its fetch and returning status analyzing; when the
\* fetch failed the cursor table is as before and the status is failed.
C34_CursorOnlyAfterSavedFetch ==
    [][(hist'.node = "worker" /\ hist.node # "worker") =>
          /\ dbCursors' # dbCursors =>
                (scratch' # scratch /\ st'.status = "analyzing")
          /\ FetchFailed(routerResult') =>
                (dbCursors' = dbCursors /\ st'.status = "failed")]_vars

\* the order inside the worker: whenever the pipeline's worker changes a
\* cursor it has saved a raw row with the id it reports, and a worker
\* that returns failed has changed neither
C34_WorkerSavesThenSetsCursor ==
    [][pc = "worker" =>
          /\ dbCursors' # dbCursors =>
                /\ st'.status = "analyzing"
                /\ \E r \in scratch' : r.id \in st'.source_ids
                                          /\ r.created_at = now
          /\ st'.status = "failed" =>
                (dbCursors' = dbCursors /\ scratch' = scratch)]_vars

\* the briefs the memory node has saved
BriefRows == {r \in scratch : r.source = "briefs"}

\* C35: any two briefs emitted by runs of the agent are at least the
\* cooldown (6h) apart.
C35_BriefsCooldownApart ==
    \A a, b \in BriefRows :
        a.created_at < b.created_at =>
            b.created_at - a.created_at >= BRIEF_COOLDOWN

\* inside one run the gate compares against the last_brief_at of the run
\* state: a brief is emitted only when the cooldown counted from that value
\* has passed
C35_GateReadsRunState ==
    [][(pc = "brief" /\ st'.brief_emitted) =>
          now - st.last_brief_at >= BRIEF_COOLDOWN]_vars

\* every run starts with last_brief_at 0, whatever the run before emitted
C35_RunStartsFromZero ==
    [][(pc = "ready" /\ pc' = "planner") => st'.last_brief_at = 0]_vars

\* the worker is about to fetch wallet w
WalletSelected(w) ==
    /\ pc = "worker"
    /\ st.selected_action = "wallet_recon"
    /\ st.target_wallet = w

\* the first tick has planned: wallet w is tracked and its cursor in the run
\* state is stale, and more ticks than there are cursors are still to run
StaleAfterFirstPlan(w) ==
    /\ runs = 1
    /\ pc = "worker"
    /\ \E i \in 1..Len(wallets) : wallets[i] = w
    /\ DictHas(st.cursors, WalletKey(w))
    /\ now - DictGet(st.cursors, WalletKey(w), 0) > CURSOR_STALE_WALLET

\* C36: a tracked wallet whose cursor is stale is eventually selected for
\* wallet_recon when ticks keep running with the budget under the cap and
\* every fetch succeeds.
C36_StaleWalletEventuallySelected ==
    \A w \in {"A", "B"} : StaleAfterFirstPlan(w) ~> WalletSelected(w)

\* the loop of the starving behaviour, step by step: a planner that finds
\* wallet:A first in the run state with cursor 0 selects A and leaves that
\* entry as it is; the worker and the analyzer leave the run state's
\* cursors as they are; a tick that is handed the state of the tick before
\* starts with its cursors.  So the entry stays 0 at every tick that ends
\* in the analyzer, however many ticks run.
C36_StarvationLoop ==
    [][/\ (pc = "planner" /\ Len(st.cursors) > 0
             /\ st.cursors[1] = [k |-> WalletKey("A"), v |-> 0])
          => /\ WalletSelected("A")'
             /\ st'.cursors[1] = st.cursors[1]
       /\ (pc \in {"worker", "analyze"}) => st'.cursors = st.cursors
       /\ (pc = "ready" /\ pc' = "planner" /\ ~hist'.fresh)
          => st'.cursors = st.cursors]_vars

\* no tick under the cap stays idle while a cursor it holds is stale: it
\* ends without an action only when every cursor is fresh
C36_IdleOnlyWhenFresh ==
    [][(pc = "planner" /\ pc' = "idle") =>
          /\ FirstStaleWallet(st'.cursors, now) = 0
          /\ now - DictGet(st'.cursors, "lp", 0) <= CURSOR_STALE_LP
          /\ now - DictGet(st'.cursors, "explore_metrics", 0)
                <= CURSOR_STALE_EXPLORE]_vars

\* the nodes of the graph in the order the statuses route through them;
\* "idle" is END
RunNodes == {"planner", "worker", "analyze", "brief", "memory"}
NodeRank(p) ==
    CASE p = "planner" -> 1
      [] p = "worker"  -> 2
      [] p = "analyze" -> 3
      [] p = "brief"   -> 4
      [] p = "memory"  -> 5
      [] p = "idle"    -> 6
      [] OTHER         -> 0

\* the raw rows a fetch action saves
FetchRows(tbl) ==
    {r \in tbl : r.source \in {"wallet_activity", "lp_activity", "web_metrics"}}

\* C37: inside a run every step routes to a node later in the order
\* planner, worker, analyze, brief, memory, END, so each node is visited at
\* most once and END is reached after at most five nodes; only the worker
\* step fetches, and it saves at most one response; the run is at END with
\* status completed, failed or capped.
C37_RunTerminates ==
    [][(pc \in RunNodes) =>
          /\ NodeRank(pc') > NodeRank(pc)
          /\ (pc # "worker" => FetchRows(scratch') = FetchRows(scratch))
          /\ Cardinality(FetchRows(scratch') \ FetchRows(scratch)) <= 1
          /\ (pc' = "idle" =>
                 st'.status \in {"completed", "failed", "capped"})]_vars

\* a run has gone through all five nodes and is at END
C37_Witness ==
    /\ pc = "idle"
    /\ hist.node = "memory"
    /\ st.status = "completed"
    /\ FetchRows(scratch) # {}

\* runs end at END in each of the three statuses
C37_WitnessCapped == pc = "idle" /\ st.status = "capped"
C37_WitnessFailed == pc = "idle" /\ st.status = "failed"

\* C38: a planner step that selects wallet_recon targets a wallet of the
\* current tracked wallet list.
C38_TargetIsTracked ==
    [][(pc = "planner" /\ st'.selected_action = "wallet_recon") =>
          st'.target_wallet \in SeqToSet(wallets)]_vars

\* a run that starts with an empty run state targets tracked wallets only,
\* whatever cursors the store holds
C38_FreshRunTargetsTracked ==
    [][(pc = "planner" /\ hist.fresh
          /\ st'.selected_action = "wallet_recon") =>
          st'.target_wallet \in SeqToSet(wallets)]_vars

\* a new process has selected a tracked wallet while the store holds the
\* cursor of a wallet that is no longer tracked
C38_FreshRunWitness ==
    /\ pc = "worker"
    /\ hist.fresh
    /\ st.selected_action = "wallet_recon"
    /\ \E w \in Wallets : /\ w \notin SeqToSet(wallets)
                          /\ dbCursors[WalletKey(w)] # NoTs

\* C39: right after cleanup_old_data with the default retention, the
\* source_id of every remaining event and every id in the source_ids of
\* every remaining artifact is the id of a remaining raw row.
C39_CleanupPreservesProvenance ==
    hist.node = "cleanup" =>
        /\ \A e \in events : \E r \in scratch : r.id = e.source_id
        /\ \A a \in artifacts :
              \A sid \in a.source_ids : \E r \in scratch : r.id = sid

\* the retention periods are applied as stated: right after cleanup no raw
\* row is older than 7 days, no event older than 30 days and no artifact
\* older than 90 days
C39_RetentionApplied ==
    hist.node = "cleanup" =>
        /\ \A r \in scratch : now - r.created_at <= SCRATCH_DAYS
        /\ \A e \in events : now - e.created_at <= EVENTS_DAYS
        /\ \A a \in artifacts : now - a.created_at <= ARTIFACTS_DAYS

\* the step the planner of src/planner_worker.py takes from the run state
\* the planner of src/nodes/planner.py is taking a step from
SameChoice(s, p) ==
    /\ p.status = s.status
    /\ p.selected_action = s.selected_action
    /\ p.target_wallet = s.target_wallet

\* C40: on every planner step, planner_worker.planner_node applied to the
\* same run state at the same time returns the status, action and target
\* wallet that nodes.planner.planner_node returns.
C40_PlannersAgree ==
    [][(pc = "planner") => SameChoice(st', pw_planner_node(st, now))]_vars

\* the case of a wallet cursor of 0 in the run state
C40_AgreeOnSeededZero ==
    [][(pc = "planner"
          /\ \E i \in 1..Len(st.cursors) :
                IsWalletKey(st.cursors[i].k) /\ st.cursors[i].v = 0)
       => SameChoice(st', pw_planner_node(st, now))]_vars

\* the run state already holds every cursor the store holds, at least one
\* wallet cursor when a wallet is tracked, and no wallet cursor of 0
StateCursorsComplete ==
    /\ \A n \in WalletKeys :
          DictHas(st.cursors, n) => DictGet(st.cursors, n, 0) # 0
    /\ \A w \in SeqToSet(wallets) :
          dbCursors[WalletKey(w)] # NoTs => DictHas(st.cursors, WalletKey(w))
    /\ \A n \in {"lp", "explore_metrics"} :
          dbCursors[n] # NoTs => DictHas(st.cursors, n)
    /\ Len(wallets) > 0 => \E n \in WalletKeys : DictHas(st.cursors, n)

\* on such a run state the two planners agree
C40_AgreeOnCompleteState ==
    [][(pc = "planner" /\ StateCursorsComplete)
       => SameChoice(st', pw_planner_node(st, now))]_vars

C40_CompleteStateWitness ==
    /\ pc = "worker"
    /\ hist.node = "planner"
    /\ st.selected_action = "wallet_recon"
    /\ st.cursors = hist.input.cursors
    /\ \A i \in 1..Len(st.cursors) : st.cursors[i].v # 0
    /\ \A n \in {"lp", "explore_metrics"} :
          dbCursors[n] # NoTs => DictHas(st.cursors, n)

====
